---------------------------- MODULE Spec2Model ----------------------------
(***************************************************************************)
(* Coding Agent Hub: the session store (HubSessionManager) and the process *)
(* invoker (invokeCli) with the output extractor it calls.                 *)
(*                                                                         *)
(* The store is an insertion-ordered Map from session id to Session.  Each *)
(* public method is one action; the idle-eviction callback armed by        *)
(* resetIdleTimer and the passing of time are the two remaining actions.   *)
(* Strings are TLA+ strings, so a composed prompt is the very text the     *)
(* code builds.  Spec is the store.                                        *)
(*                                                                         *)
(* invokeCli is one call followed by the callbacks it registers: the       *)
(* timeout, the child's error and exit events and the data events of its   *)
(* pipes; the child process itself is the environment.  Process output is  *)
(* a sequence of characters, so that the extractor reads what the code     *)
(* reads.  InvokeSpec is one invocation, InvokeFairSpec the same with the  *)
(* fairness of the clock and of the event loop.                            *)
(*                                                                         *)
(* buildEnv, StdoutCollector.add and extractMessageContent are also run on *)
(* their own, under EnvSpec, CollectorSpec and ExtractSpec.  The tools of  *)
(* the hub server are HubSpec, where a handler is one step up to its await *)
(* of invokeCli and one step from the result on, so that calls overlap;    *)
(* MessageSpec is the session tools under every sessionConfig.             *)
(***************************************************************************)
EXTENDS Integers, Sequences, FiniteSets, TLC

VARIABLES
    config,     \* HubSessionManager.config: idleTimeoutMs, maxContextTurns, maxContextChars
    sessions,   \* HubSessionManager.sessions: the Map, as its entries in insertion order
    timers,     \* the armed setTimeout handles of the runtime
    now,        \* Date.now()
    issued,     \* the ids randomUUID has returned so far
    calls,      \* number of method calls made so far
    last,       \* the last event: the method called, its arguments, what it returned
                \* and the turns its session held when it was called
    call,       \* invokeCli: config, input and the locals computed on entry
    timeout,    \* invokeCli: the armed setTimeout handle, Null once cleared or run
    ac,         \* invokeCli: the AbortController
    child,      \* the ChildProcess spawn returned and the process behind it
    stdoutCollector,    \* invokeCli: the StdoutCollector
    stderrChunks,       \* invokeCli: the stderr chunks
    result,     \* the value the returned promise is resolved with
    inflight,   \* hub server: the tool handlers that await invokeCli
    given,      \* what a function checked on its own is given
    returned    \* what that function returned

storeVars == <<config, sessions, timers, issued, calls, last>>

invokerVars == <<call, timeout, ac, child, stdoutCollector, stderrChunks, result>>

hubVars == <<inflight>>

harnessVars == <<given, returned>>

vars == <<config, sessions, timers, now, issued, calls, last,
          call, timeout, ac, child, stdoutCollector, stderrChunks, result,
          inflight, given, returned>>

---------------------------------------------------------------------------
(* Bounds of the model. *)

\* Method calls explored per behaviour.
MaxCalls == 4

\* The clock runs from 0 to MaxTime.
MaxTime == 2

\* The ids randomUUID draws from.
SessionIds == {"id1", "id2"}

\* User message texts, of lengths 1 and 2, and the assistant's response text.
Messages == {"a", "bb"}
Responses == {"bb"}

\* Arguments of startSession: with and without the optional model and workingDir.
Undefined == "undefined"
StartArgs ==
    {[backend |-> "claude", model |-> Undefined, workingDir |-> Undefined],
     [backend |-> "gemini", model |-> "gemini-2.5-pro", workingDir |-> "/tmp"]}

\* Constructor arguments explored.
IdleTimeouts == {1, 2}
TurnLimits == {0, 1, 2, 3}
CharLimits == {1, 4}

---------------------------------------------------------------------------
(* The Map of sessions. *)

MapKeys(map) == {map[i].id : i \in 1..Len(map)}

MapHas(map, id) == id \in MapKeys(map)

MapGet(map, id) == map[CHOOSE i \in 1..Len(map) : map[i].id = id]

\* Map.set: a present key keeps its place, a new key goes last.
MapSet(map, id, s) ==
    IF MapHas(map, id)
    THEN [i \in 1..Len(map) |-> IF map[i].id = id THEN s ELSE map[i]]
    ELSE Append(map, s)

MapDelete(map, id) == SelectSeq(map, LAMBDA s : s.id # id)

---------------------------------------------------------------------------
(* Timers. A handle is the session it evicts and the time it is due. *)

ClearTimeout(ts, handle) == ts \ {handle}

Null == [sid |-> "null", at |-> -1]

\* Mutant: the timer is armed one unit late.
IdleHandleLate(s) == [sid |-> s.id, at |-> now + config.idleTimeoutMs + 1]

\* The handle of the setTimeout in resetIdleTimer, stored in session.idleTimer.
IdleHandle(s) == [sid |-> s.id, at |-> now + config.idleTimeoutMs]

\* Mutant: a pending timer is left as it is (an early return for the re-arm).
ResetIdleTimerKeepsPending(ts, s) ==
    IF s.idleTimer # Null THEN ts ELSE ts \cup {IdleHandle(s)}

\* Mutant: the pending timer is not cancelled before the new one is armed.
ResetIdleTimerNoClear(ts, s) == ts \cup {IdleHandle(s)}

\* resetIdleTimer: the runtime's timers after it.
ResetIdleTimer(ts, s) ==
    (IF s.idleTimer # Null THEN ClearTimeout(ts, s.idleTimer) ELSE ts) \cup {IdleHandle(s)}

\* Mutant: stopSession leaves the timer armed.
StopIdleTimerLeak(ts, s) == ts

\* stopSession's clearTimeout.
StopIdleTimer(ts, s) ==
    IF s.idleTimer # Null THEN ClearTimeout(ts, s.idleTimer) ELSE ts

---------------------------------------------------------------------------
(* History trimming and prompt text. *)

RECURSIVE TotalChars(_)
TotalChars(turns) ==
    IF turns = <<>> THEN 0 ELSE Len(Head(turns).content) + TotalChars(Tail(turns))

\* Mutant: the count loop stops one turn early.
RECURSIVE TrimByCountOffByOne(_, _)
TrimByCountOffByOne(turns, maxTurns) ==
    IF Len(turns) > maxTurns + 1 THEN TrimByCountOffByOne(Tail(turns), maxTurns) ELSE turns

\* Mutant: the count loop drops the newest turn (pop for shift).
RECURSIVE TrimByCountNewest(_, _)
TrimByCountNewest(turns, maxTurns) ==
    IF Len(turns) > maxTurns
    THEN TrimByCountNewest(SubSeq(turns, 1, Len(turns) - 1), maxTurns)
    ELSE turns

RECURSIVE TrimByCount(_, _)
TrimByCount(turns, maxTurns) ==
    IF Len(turns) > maxTurns THEN TrimByCount(Tail(turns), maxTurns) ELSE turns

\* Mutant: the character loop stops one character early.
RECURSIVE TrimByCharsOffByOne(_, _, _)
TrimByCharsOffByOne(turns, totalChars, maxChars) ==
    IF totalChars > maxChars + 1 /\ Len(turns) > 1
    THEN TrimByCharsOffByOne(Tail(turns), totalChars - Len(Head(turns).content), maxChars)
    ELSE turns

\* Mutant: the character loop does not stop at the last turn.
RECURSIVE TrimByCharsToEmpty(_, _, _)
TrimByCharsToEmpty(turns, totalChars, maxChars) ==
    IF totalChars > maxChars /\ Len(turns) > 0
    THEN TrimByCharsToEmpty(Tail(turns), totalChars - Len(Head(turns).content), maxChars)
    ELSE turns

RECURSIVE TrimByChars(_, _, _)
TrimByChars(turns, totalChars, maxChars) ==
    IF totalChars > maxChars /\ Len(turns) > 1
    THEN TrimByChars(Tail(turns), totalChars - Len(Head(turns).content), maxChars)
    ELSE turns

TrimHistory(turns) ==
    LET byCount == TrimByCount(turns, config.maxContextTurns)
    IN  TrimByChars(byCount, TotalChars(byCount), config.maxContextChars)

\* Mutant: the role stands without its brackets.
TurnLineBare(t) == t.role \o ": " \o t.content

\* `[${t.role}]: ${t.content}`
TurnLine(t) == "[" \o t.role \o "]: " \o t.content

RECURSIVE JoinLines(_)
JoinLines(turns) ==
    IF turns = <<>> THEN ""
    ELSE IF Len(turns) = 1 THEN TurnLine(turns[1])
    ELSE TurnLine(turns[1]) \o "\n" \o JoinLines(Tail(turns))

BuildContextBlock(turns) ==
    "<conversation_history>\n" \o JoinLines(turns) \o "\n</conversation_history>"

Instruction ==
    "\n\nBased on the conversation above, respond to the latest message.\nThe new message is: "

\* Mutant: the history keeps the message just appended (slice(0) for slice(0, -1)).
HistoryTurnsAll(turns) == turns

HistoryTurns(turns) == SubSeq(turns, 1, Len(turns) - 1)

\* Mutant: the first-turn test is < 1 for <= 1.
PromptForWrapsFirst(turns, userMessage) ==
    IF Len(turns) < 1
    THEN userMessage
    ELSE BuildContextBlock(SubSeq(turns, 1, Len(turns) - 1)) \o Instruction \o userMessage

PromptFor(turns, userMessage) ==
    IF Len(turns) <= 1
    THEN userMessage
    ELSE BuildContextBlock(HistoryTurns(turns)) \o Instruction \o userMessage

\* The turn lists buildPrompt and recordResponse leave behind.
UserTurn(userMessage) == [role |-> "user", content |-> userMessage, timestamp |-> now]

AssistantTurn(assistantContent) ==
    [role |-> "assistant", content |-> assistantContent, timestamp |-> now]

\* Mutant: a user turn that has no response yet is replaced by the new one.
TurnsAfterBuildPromptReplacesUnanswered(turns, userMessage) ==
    IF turns # <<>> /\ turns[Len(turns)].role = "user"
    THEN TrimHistory(Append(SubSeq(turns, 1, Len(turns) - 1), UserTurn(userMessage)))
    ELSE TrimHistory(Append(turns, UserTurn(userMessage)))

TurnsAfterBuildPrompt(turns, userMessage) ==
    TrimHistory(Append(turns, UserTurn(userMessage)))

\* Mutant: recordResponse trims as buildPrompt does.
TurnsAfterRecordResponseTrimmed(turns, assistantContent) ==
    TrimHistory(Append(turns, AssistantTurn(assistantContent)))

\* Mutant: the last write wins, the response replaces what was written after the last
\* user turn.
TurnsAfterRecordResponseOverwrites(turns, assistantContent) ==
    LET users == {i \in 1..Len(turns) : turns[i].role = "user"}
        kept == IF users = {} THEN 0 ELSE CHOOSE i \in users : \A j \in users : j <= i
    IN  Append(SubSeq(turns, 1, kept), AssistantTurn(assistantContent))

TurnsAfterRecordResponse(turns, assistantContent) ==
    Append(turns, AssistantTurn(assistantContent))

\* Mutant: a mutation leaves lastActiveAt as it was.
TouchedKeepsTime(session, turns) ==
    [session EXCEPT !.turns = turns, !.idleTimer = IdleHandle(session)]

\* The session after a mutation: its turns, lastActiveAt = Date.now(), and the handle
\* resetIdleTimer stores.
Touched(session, turns) ==
    [session EXCEPT !.turns = turns, !.lastActiveAt = now, !.idleTimer = IdleHandle(session)]

\* Mutant: randomUUID may return an id again.
RandomUUIDRepeats == SessionIds

\* randomUUID: any id it has not returned before.
RandomUUID == SessionIds \ issued

NotFound(id) == "Session not found: " \o id

\* Mutant: the info carries the turns themselves.
ToSessionInfoWithTurns(s) ==
    [sessionId |-> s.id, backend |-> s.backend, model |-> s.model,
     workingDir |-> s.workingDir, createdAt |-> s.createdAt,
     lastActiveAt |-> s.lastActiveAt, turnCount |-> Len(s.turns), turns |-> s.turns]

\* Mutant: the unknown id is passed over in silence (a return for the throw).
Swallowed(op, id, msg) ==
    [op |-> op, id |-> id, msg |-> msg, ok |-> TRUE, ret |-> "", was |-> <<>>]

\* throw new Error(`Session not found: ${sessionId}`), as the caller sees it.
Thrown(op, id, msg) ==
    [op |-> op, id |-> id, msg |-> msg, ok |-> FALSE, ret |-> NotFound(id), was |-> <<>>]

ToSessionInfo(s) ==
    [sessionId |-> s.id, backend |-> s.backend, model |-> s.model,
     workingDir |-> s.workingDir, createdAt |-> s.createdAt,
     lastActiveAt |-> s.lastActiveAt, turnCount |-> Len(s.turns)]

---------------------------------------------------------------------------
(* The state after construction. *)

\* The invoker before invokeCli is called.
NoCall == [startTime |-> -1]
NoChild == [state |-> "none"]
NoResult == [pending |-> TRUE]
NewStdoutCollector == [chunks |-> <<>>, totalSize |-> 0, truncated |-> FALSE]

InvokerIdle ==
    /\ call = NoCall
    /\ timeout = Null
    /\ ac = [aborted |-> FALSE]
    /\ child = NoChild
    /\ stdoutCollector = NewStdoutCollector
    /\ stderrChunks = <<>>
    /\ result = NoResult

\* The hub server with no tool call under way.
HubIdle == inflight = {}

\* No function is being checked on its own.
HarnessIdle ==
    /\ given = <<>>
    /\ returned = <<>>

NoEvent == [op |-> "none", id |-> "", msg |-> "", ok |-> TRUE, ret |-> "", was |-> <<>>]

Init ==
    /\ config \in [idleTimeoutMs : IdleTimeouts,
                   maxContextTurns : TurnLimits,
                   maxContextChars : CharLimits]
    /\ sessions = <<>>
    /\ timers = {}
    /\ now = 0
    /\ issued = {}
    /\ calls = 0
    /\ last = NoEvent
    /\ InvokerIdle
    /\ HubIdle
    /\ HarnessIdle

Called == calls < MaxCalls /\ calls' = calls + 1

---------------------------------------------------------------------------
(* The methods. *)

\* The Session object startSession builds.
NewSession(id, backend, model, workingDir) ==
    [id |-> id, backend |-> backend,
     model |-> IF model = Undefined THEN "" ELSE model,
     workingDir |-> workingDir, turns |-> <<>>,
     createdAt |-> now, lastActiveAt |-> now,
     idleTimer |-> Null]

StartSession(backend, model, workingDir) ==
    /\ Called
    /\ \E id \in RandomUUID :
        LET session == NewSession(id, backend, model, workingDir)
        IN  /\ issued' = issued \cup {id}
            /\ sessions' = MapSet(sessions, id,
                                  [session EXCEPT !.idleTimer = IdleHandle(session)])
            /\ timers' = ResetIdleTimer(timers, session)
            /\ last' = [op |-> "startSession", id |-> id, msg |-> "", ok |-> TRUE, ret |-> id, was |-> <<>>]
    /\ UNCHANGED <<config, now>>
    /\ UNCHANGED <<invokerVars, hubVars, harnessVars>>

BuildPrompt(sessionId, userMessage) ==
    /\ Called
    /\ IF ~MapHas(sessions, sessionId)
       THEN /\ last' = Thrown("buildPrompt", sessionId, userMessage)
            /\ UNCHANGED <<sessions, timers>>
       ELSE LET session == MapGet(sessions, sessionId)
                trimmed == TurnsAfterBuildPrompt(session.turns, userMessage)
            IN  /\ sessions' = MapSet(sessions, sessionId, Touched(session, trimmed))
                /\ timers' = ResetIdleTimer(timers, session)
                /\ last' = [op |-> "buildPrompt", id |-> sessionId, msg |-> userMessage,
                            ok |-> TRUE, ret |-> PromptFor(trimmed, userMessage),
                            was |-> session.turns]
    /\ UNCHANGED <<config, now, issued>>
    /\ UNCHANGED <<invokerVars, hubVars, harnessVars>>

RecordResponse(sessionId, assistantContent) ==
    /\ Called
    /\ IF ~MapHas(sessions, sessionId)
       THEN /\ last' = Thrown("recordResponse", sessionId, assistantContent)
            /\ UNCHANGED <<sessions, timers>>
       ELSE LET session == MapGet(sessions, sessionId)
                pushed == TurnsAfterRecordResponse(session.turns, assistantContent)
            IN  /\ sessions' = MapSet(sessions, sessionId, Touched(session, pushed))
                /\ timers' = ResetIdleTimer(timers, session)
                /\ last' = [op |-> "recordResponse", id |-> sessionId,
                            msg |-> assistantContent, ok |-> TRUE, ret |-> "",
                            was |-> session.turns]
    /\ UNCHANGED <<config, now, issued>>
    /\ UNCHANGED <<invokerVars, hubVars, harnessVars>>

StopSession(sessionId) ==
    /\ Called
    /\ IF ~MapHas(sessions, sessionId)
       THEN /\ last' = [op |-> "stopSession", id |-> sessionId, msg |-> "",
                        ok |-> TRUE, ret |-> FALSE, was |-> <<>>]
            /\ UNCHANGED <<sessions, timers>>
       ELSE LET session == MapGet(sessions, sessionId)
            IN  /\ timers' = StopIdleTimer(timers, session)
                /\ sessions' = MapDelete(sessions, sessionId)
                /\ last' = [op |-> "stopSession", id |-> sessionId, msg |-> "",
                            ok |-> TRUE, ret |-> TRUE, was |-> session.turns]
    /\ UNCHANGED <<config, now, issued>>
    /\ UNCHANGED <<invokerVars, hubVars, harnessVars>>

ListSessions ==
    /\ Called
    /\ last' = [op |-> "listSessions", id |-> "", msg |-> "", ok |-> TRUE,
                ret |-> [i \in 1..Len(sessions) |-> ToSessionInfo(sessions[i])],
                was |-> <<>>]
    /\ UNCHANGED <<config, sessions, timers, now, issued>>
    /\ UNCHANGED <<invokerVars, hubVars, harnessVars>>

GetSession(sessionId) ==
    /\ Called
    /\ last' = [op |-> "getSession", id |-> sessionId, msg |-> "", ok |-> TRUE,
                ret |-> IF MapHas(sessions, sessionId)
                        THEN ToSessionInfo(MapGet(sessions, sessionId))
                        ELSE Null,
                was |-> <<>>]
    /\ UNCHANGED <<config, sessions, timers, now, issued>>
    /\ UNCHANGED <<invokerVars, hubVars, harnessVars>>

\* Mutant: destroy clears the map and no timer.
ClearAllForgotten(ts, map) == ts

RECURSIVE ClearAll(_, _)
ClearAll(ts, map) ==
    IF map = <<>> THEN ts
    ELSE ClearAll(IF Head(map).idleTimer # Null
                  THEN ClearTimeout(ts, Head(map).idleTimer)
                  ELSE ts,
                  Tail(map))

Destroy ==
    /\ Called
    /\ timers' = ClearAll(timers, sessions)
    /\ sessions' = <<>>
    /\ last' = [op |-> "destroy", id |-> "", msg |-> "", ok |-> TRUE, ret |-> "", was |-> <<>>]
    /\ UNCHANGED <<config, now, issued>>
    /\ UNCHANGED <<invokerVars, hubVars, harnessVars>>

---------------------------------------------------------------------------
(* The runtime: the idle timer's callback, and time. *)

\* The callback resetIdleTimer arms: it runs once, no earlier than it is due.
IdleTimerFires(handle) ==
    /\ handle \in timers
    /\ now >= handle.at
    /\ timers' = timers \ {handle}
    /\ sessions' = MapDelete(sessions, handle.sid)
    /\ last' = [op |-> "idleTimer", id |-> handle.sid, msg |-> "", ok |-> TRUE, ret |-> "",
                was |-> <<>>]
    /\ UNCHANGED <<config, now, issued, calls>>
    /\ UNCHANGED <<invokerVars, hubVars, harnessVars>>

\* A millisecond passes. A timer that is due runs before the clock moves on, and so
\* does the next-tick callback that reports a failed spawn.
Tick ==
    /\ now < MaxTime
    /\ \A t \in timers : t.at > now
    /\ timeout = Null \/ timeout.at > now
    /\ child.state # "failed"
    /\ now' = now + 1
    /\ last' = [op |-> "tick", id |-> "", msg |-> "", ok |-> TRUE, ret |-> "", was |-> <<>>]
    /\ UNCHANGED <<config, sessions, timers, issued, calls>>
    /\ UNCHANGED <<invokerVars, hubVars, harnessVars>>

Next ==
    \/ \E a \in StartArgs : StartSession(a.backend, a.model, a.workingDir)
    \/ \E id \in SessionIds, m \in Messages : BuildPrompt(id, m)
    \/ \E id \in SessionIds, r \in Responses : RecordResponse(id, r)
    \/ \E id \in SessionIds : StopSession(id)
    \/ \E id \in SessionIds : GetSession(id)
    \/ ListSessions
    \/ Destroy
    \/ \E h \in timers : IdleTimerFires(h)
    \/ Tick

Spec == Init /\ [][Next]_vars

---------------------------------------------------------------------------
(* Vocabulary of the properties. *)

\* The id is in the store.
Live(id) == \E i \in 1..Len(sessions) : sessions[i].id = id

TurnsOf(id) == sessions[CHOOSE i \in 1..Len(sessions) : sessions[i].id = id].turns

\* Sum of the content lengths of a turn list.
ContentLength(turns) ==
    LET sum[i \in 0..Len(turns)] ==
            IF i = 0 THEN 0 ELSE sum[i - 1] + Len(turns[i].content)
    IN  sum[Len(turns)]

Succeeded(op) == last.op = op /\ last.ok /\ Live(last.id)

\* The last k turns of a list.
Suffix(turns, k) == SubSeq(turns, Len(turns) - k + 1, Len(turns))

\* All turns but the last.
Earlier(turns) == [i \in 1..(Len(turns) - 1) |-> turns[i]]

\* A turn list meets both limits; a single turn is excused from the character limit.
WithinLimits(turns) ==
    /\ Len(turns) <= config.maxContextTurns
    /\ ContentLength(turns) <= config.maxContextChars \/ Len(turns) <= 1

\* The text of a prompt that carries history: each turn on a line of its own.
Envelope(history) ==
    LET text[i \in 0..Len(history)] ==
            IF i = 0 THEN "<conversation_history>"
            ELSE text[i - 1] \o "\n[" \o history[i].role \o "]: " \o history[i].content
    IN  text[Len(history)] \o "\n</conversation_history>"

Wrapped(history, message) ==
    Envelope(history)
        \o "\n\nBased on the conversation above, respond to the latest message."
        \o "\nThe new message is: " \o message

---------------------------------------------------------------------------
(* C1: after every successful buildPrompt or recordResponse the session    *)
(* holds at most maxContextTurns turns.  This is the claim as stated; it   *)
(* fails after recordResponse, which appends without trimming.             *)
C1_TurnCountBoundedAfterEveryMutation ==
    (Succeeded("buildPrompt") \/ Succeeded("recordResponse"))
        => Len(TurnsOf(last.id)) <= config.maxContextTurns

(* C1, amended: after every successful buildPrompt the session holds at    *)
(* most maxContextTurns turns.                                             *)
C1_TurnCountBoundedAfterBuildPrompt ==
    Succeeded("buildPrompt") => Len(TurnsOf(last.id)) <= config.maxContextTurns

\* A buildPrompt on a session already at its limit of 2, which dropped a turn.
C1_Witness ==
    /\ Succeeded("buildPrompt")
    /\ config.maxContextTurns = 2
    /\ Len(last.was) = 2
    /\ Len(TurnsOf(last.id)) = 2

C4_FirstPromptIsRawAndOneTurn ==
    (Succeeded("buildPrompt") /\ last.was = <<>>) =>
        /\ last.ret = last.msg
        /\ Len(TurnsOf(last.id)) = 1
        /\ TurnsOf(last.id)[1].role = "user"
        /\ TurnsOf(last.id)[1].content = last.msg

(* C4, amended: on a freshly created session buildPrompt(id, m) returns    *)
(* exactly m; afterwards the session holds exactly one turn, a user turn   *)
(* with content m, when maxContextTurns >= 1, and no turn when             *)
(* maxContextTurns = 0.                                                    *)
C4_FirstPromptIsRaw ==
    (Succeeded("buildPrompt") /\ last.was = <<>>) =>
        /\ last.ret = last.msg
        /\ IF config.maxContextTurns >= 1
           THEN /\ Len(TurnsOf(last.id)) = 1
                /\ TurnsOf(last.id)[1].role = "user"
                /\ TurnsOf(last.id)[1].content = last.msg
           ELSE TurnsOf(last.id) = <<>>

\* The first buildPrompt of a session, with a message longer than maxContextChars.
C4_Witness ==
    /\ Succeeded("buildPrompt")
    /\ last.was = <<>>
    /\ Len(TurnsOf(last.id)) = 1
    /\ Len(last.msg) > config.maxContextChars
    /\ last.ret = last.msg

(* C5: when more than one turn remains after trimming, the prompt is the   *)
(* history envelope listing every kept turn but the one just appended,     *)
(* once each, oldest first, each with its own role, then the fixed         *)
(* instruction and the message; the turn just appended is the last kept    *)
(* turn and is not in the envelope.                                        *)
C5_PromptListsEarlierTurnsInOrder ==
    (Succeeded("buildPrompt") /\ Len(TurnsOf(last.id)) > 1) =>
        LET kept == TurnsOf(last.id)
        IN  /\ kept[Len(kept)].role = "user"
            /\ kept[Len(kept)].content = last.msg
            /\ last.ret = Wrapped(Earlier(kept), last.msg)

\* A prompt carrying a user turn and then an assistant turn.
C5_Witness ==
    /\ Succeeded("buildPrompt")
    /\ Len(TurnsOf(last.id)) = 3
    /\ TurnsOf(last.id)[1].role = "user"
    /\ TurnsOf(last.id)[2].role = "assistant"
    /\ last.ret = "<conversation_history>\n[user]: a\n[assistant]: bb\n</conversation_history>"
                    \o "\n\nBased on the conversation above, respond to the latest message."
                    \o "\nThe new message is: a"

(* C6: recordResponse on a live session appends exactly one assistant turn *)
(* and removes none, whatever the limits: the list grows by one and the    *)
(* list before is a prefix of the list after.                              *)
C6_RecordResponseOnlyAppends ==
    Succeeded("recordResponse") =>
        LET after == TurnsOf(last.id)
        IN  /\ Len(after) = Len(last.was) + 1
            /\ \A i \in 1..Len(last.was) : after[i] = last.was[i]
            /\ after[Len(after)].role = "assistant"
            /\ after[Len(after)].content = last.msg

\* A recordResponse that left the session above both limits.
C6_Witness ==
    /\ Succeeded("recordResponse")
    /\ Len(TurnsOf(last.id)) > config.maxContextTurns
    /\ config.maxContextTurns >= 1
    /\ ContentLength(TurnsOf(last.id)) > config.maxContextChars

(* C2: after every successful buildPrompt or recordResponse the contents   *)
(* of the session's turns sum to at most maxContextChars, unless exactly   *)
(* one turn is held.  This is the claim as stated; it fails after          *)
(* recordResponse, which appends without trimming.                         *)
C2_CharsBoundedAfterEveryMutation ==
    (Succeeded("buildPrompt") \/ Succeeded("recordResponse"))
        => \/ ContentLength(TurnsOf(last.id)) <= config.maxContextChars
           \/ Len(TurnsOf(last.id)) = 1

(* C2, amended: after every successful buildPrompt the contents of the     *)
(* session's turns sum to at most maxContextChars, unless exactly one turn *)
(* is held.                                                                *)
C2_CharsBoundedAfterBuildPrompt ==
    Succeeded("buildPrompt")
        => \/ ContentLength(TurnsOf(last.id)) <= config.maxContextChars
           \/ Len(TurnsOf(last.id)) = 1

\* A buildPrompt that dropped a turn for its characters alone and kept two turns
\* that fill the limit of 4.
C2_Witness ==
    /\ Succeeded("buildPrompt")
    /\ config.maxContextChars = 4
    /\ config.maxContextTurns = 3
    /\ Len(last.was) = 2
    /\ Len(TurnsOf(last.id)) = 2
    /\ ContentLength(TurnsOf(last.id)) = 4

---------------------------------------------------------------------------
(* Properties of steps.  Every action sets last, so last' names the event  *)
(* of the step.                                                            *)

Ids(map) == {map[i].id : i \in 1..Len(map)}

Without(map, id) == SelectSeq(map, LAMBDA s : s.id # id)

\* What a call on an id that is not in the store gives, and that it changes nothing.
UnknownIdOutcome ==
    (last'.id \in SessionIds /\ last'.id \notin Ids(sessions)) =>
        /\ last'.op \in {"buildPrompt", "recordResponse"} =>
              /\ ~last'.ok
              /\ last'.ret = "Session not found: " \o last'.id
              /\ UNCHANGED <<sessions, timers, issued>>
        /\ last'.op = "stopSession" =>
              /\ last'.ret = FALSE
              /\ UNCHANGED <<sessions, timers, issued>>
        /\ last'.op = "getSession" => last'.ret = Null

(* C7: buildPrompt and recordResponse on an id that is not in the store    *)
(* fail with "Session not found" and leave the store as it was: no session *)
(* created, no turn appended, no lastActiveAt changed, no timer armed.     *)
C7_UnknownIdFailsAndChangesNothing ==
    [][(/\ last'.op \in {"buildPrompt", "recordResponse"}
        /\ last'.id \notin Ids(sessions))
            => /\ ~last'.ok
               /\ last'.ret = "Session not found: " \o last'.id
               /\ sessions' = sessions
               /\ timers' = timers
               /\ issued' = issued]_vars

\* A failed recordResponse on an unknown id while another session is live and armed.
C7_Witness ==
    /\ last.op = "recordResponse"
    /\ ~last.ok
    /\ last.ret = "Session not found: " \o last.id
    /\ ~Live(last.id)
    /\ Len(sessions) = 1
    /\ timers # {}

(* C8: stopSession(id) returns true exactly when id is in the store; then  *)
(* the session is gone, its idle timer is cancelled and every other        *)
(* session and timer is untouched; on an id not in the store it returns    *)
(* false and changes nothing.                                              *)
C8_StopRemovesExactlyThatSession ==
    [][last'.op = "stopSession"
            => /\ last'.ret = (last'.id \in Ids(sessions))
               /\ last'.id \notin Ids(sessions')
               /\ sessions' = Without(sessions, last'.id)
               /\ timers' = {t \in timers : t.sid # last'.id}
               /\ last'.id \notin Ids(sessions) => (sessions' = sessions /\ timers' = timers)
               /\ issued' = issued]_vars

\* A stop that returned true and left the other session live with its timer armed.
C8_Witness ==
    /\ last.op = "stopSession"
    /\ last.ret = TRUE
    /\ ~Live(last.id)
    /\ Len(sessions) = 1
    /\ Cardinality(timers) = 1
    /\ \A t \in timers : t.sid = sessions[1].id

(* C9: no reactivation.  An id that has left the store (by stop, idle      *)
(* eviction or destroy) is never in the store again, and every later call  *)
(* on it gives what a call on an id that never existed gives: get returns  *)
(* null, list omits it, buildPrompt and recordResponse fail with "Session  *)
(* not found", stop returns false.                                         *)
C9_RemovedIdStaysUnknown ==
    [][/\ \A id \in issued \ Ids(sessions) : id \notin Ids(sessions')
       /\ UnknownIdOutcome
       /\ last'.op = "listSessions" =>
             {last'.ret[i].sessionId : i \in 1..Len(last'.ret)} = Ids(sessions)]_vars

\* A buildPrompt that failed on an id that was issued and has since been removed.
C9_Witness ==
    /\ last.op = "buildPrompt"
    /\ ~last.ok
    /\ last.id \in issued
    /\ ~Live(last.id)

(* C10: a live session is never idle for longer than idleTimeoutMs: once   *)
(* that long has passed since its last mutation its idle timer has removed *)
(* it, and it is unknown from then on.                                     *)
C10_IdleSessionIsEvicted ==
    /\ \A i \in 1..Len(sessions) : now - sessions[i].lastActiveAt <= config.idleTimeoutMs
    /\ last.op = "idleTimer" => ~Live(last.id)

\* The idle timer has just removed a session that was built on and then left alone.
C10_Witness ==
    /\ last.op = "idleTimer"
    /\ last.id \in issued
    /\ ~Live(last.id)
    /\ now >= config.idleTimeoutMs
    /\ calls >= 2

---------------------------------------------------------------------------
(* The idle timer and the read paths. *)

\* The timers armed for an id.
TimersOf(ts, id) == {t \in ts : t.sid = id}

\* The operations that mutate a session.
Mutations == {"startSession", "buildPrompt", "recordResponse"}

\* The fields of the info record a read returns.
InfoFields ==
    {"sessionId", "backend", "model", "workingDir", "createdAt", "lastActiveAt", "turnCount"}

\* C11: a session is evicted by its idle timer only when at least the idle timeout has
\* passed since its most recent mutation, and each successful startSession, buildPrompt
\* and recordResponse leaves exactly one timer for the session, due a full idle timeout
\* after the call.
C11_MutationRearmsFullPeriod ==
    [][/\ (last'.op = "idleTimer" /\ Live(last'.id))
            => now - MapGet(sessions, last'.id).lastActiveAt >= config.idleTimeoutMs
       /\ (last'.op \in Mutations /\ last'.ok)
            => TimersOf(timers', last'.id)
                 = {[sid |-> last'.id, at |-> now' + config.idleTimeoutMs]}]_vars

\* A session that has outlived the deadline of its first timer because a later mutation
\* re-armed it.
C11_Witness ==
    \E i \in 1..Len(sessions) :
        /\ now >= sessions[i].createdAt + config.idleTimeoutMs
        /\ now - sessions[i].lastActiveAt < config.idleTimeoutMs
        /\ Len(sessions[i].turns) >= 1

\* C12: getSession and listSessions change no session (turns, metadata, lastActiveAt)
\* and no timer, and what they return carries the turn count and never the turns.
C12_ReadsChangeNothing ==
    [][last'.op \in {"getSession", "listSessions"} =>
         /\ sessions' = sessions
         /\ timers' = timers
         /\ last'.op = "getSession" =>
              IF Live(last'.id)
              THEN /\ DOMAIN last'.ret = InfoFields
                   /\ last'.ret.turnCount = Len(TurnsOf(last'.id))
              ELSE last'.ret = Null
         /\ last'.op = "listSessions" =>
              /\ Len(last'.ret) = Len(sessions)
              /\ \A i \in 1..Len(sessions) :
                    /\ DOMAIN last'.ret[i] = InfoFields
                    /\ last'.ret[i].sessionId = sessions[i].id
                    /\ last'.ret[i].turnCount = Len(sessions[i].turns)]_vars

\* getSession on a session with turns, read after its last mutation's millisecond.
C12_Witness ==
    /\ last.op = "getSession"
    /\ Live(last.id)
    /\ last.ret.turnCount >= 1
    /\ now > last.ret.lastActiveAt

\* C13: after destroy the store is empty and no timer is armed, whatever was in it;
\* so a second destroy finds nothing and leaves the same state.
C13_DestroyLeavesNothing ==
    last.op = "destroy" => sessions = <<>> /\ timers = {} /\ last.ok

\* destroy on a store of two live sessions: two starts and the destroy, no eviction.
C13_Witness ==
    /\ last.op = "destroy"
    /\ Cardinality(issued) = 2
    /\ calls = 3
    /\ now = 0

\* C14: lastActiveAt of a session never decreases and is never before createdAt, and a
\* successful mutation leaves it at the time of the call with the timer re-armed from
\* that time.
C14_LastActiveAtMonotone ==
    [][/\ \A i \in 1..Len(sessions') :
            sessions'[i].createdAt <= sessions'[i].lastActiveAt
       /\ \A id \in Ids(sessions) \cap Ids(sessions') :
            MapGet(sessions', id).lastActiveAt >= MapGet(sessions, id).lastActiveAt
       /\ (last'.op \in Mutations /\ last'.ok) =>
            /\ MapGet(sessions', last'.id).lastActiveAt = now'
            /\ MapGet(sessions', last'.id).idleTimer \in timers'
            /\ MapGet(sessions', last'.id).idleTimer.at = now' + config.idleTimeoutMs]_vars

\* A successful buildPrompt later than the session's creation.
C14_Witness ==
    /\ Succeeded("buildPrompt")
    /\ MapGet(sessions, last.id).lastActiveAt = now
    /\ MapGet(sessions, last.id).createdAt < now

\* C15: every live session has exactly one armed timer, the one it holds, and no timer
\* is armed for an id that is not in the store.
C15_OneTimerPerLiveSession ==
    /\ \A i \in 1..Len(sessions) :
          TimersOf(timers, sessions[i].id) = {sessions[i].idleTimer}
    /\ \A t \in timers : t.sid \in Ids(sessions)

\* Two live sessions, one of them re-armed after the clock moved.
C15_Witness ==
    /\ Len(sessions) = 2
    /\ Cardinality(timers) = 2
    /\ \E i \in 1..2 : sessions[i].lastActiveAt > sessions[i].createdAt

---------------------------------------------------------------------------
(* Text.  What a process writes is a sequence of characters, each a string *)
(* of length one; indices are 1-based and 0 stands for JavaScript's -1.    *)

\* The white space of String.prototype.trim, of \s and of JSON.
WhiteSpace == {" ", "\n", "\t", "\r"}

Quote == "\""

RECURSIVE TrimStart(_)
TrimStart(text) ==
    IF text # <<>> /\ Head(text) \in WhiteSpace THEN TrimStart(Tail(text)) ELSE text

RECURSIVE TrimEnd(_)
TrimEnd(text) ==
    IF text # <<>> /\ text[Len(text)] \in WhiteSpace
    THEN TrimEnd(SubSeq(text, 1, Len(text) - 1))
    ELSE text

\* String.prototype.trim
Trim(text) == TrimEnd(TrimStart(text))

\* String.prototype.indexOf and lastIndexOf of one character.
IndexOf(text, c) ==
    IF \E i \in 1..Len(text) : text[i] = c
    THEN CHOOSE i \in 1..Len(text) : text[i] = c /\ \A j \in 1..(i - 1) : text[j] # c
    ELSE 0

LastIndexOf(text, c) ==
    IF \E i \in 1..Len(text) : text[i] = c
    THEN CHOOSE i \in 1..Len(text) : text[i] = c /\ \A j \in (i + 1)..Len(text) : text[j] # c
    ELSE 0

\* The literal stands in the text at index i.
HasAt(text, i, literal) ==
    /\ i >= 1
    /\ i + Len(literal) - 1 <= Len(text)
    /\ SubSeq(text, i, i + Len(literal) - 1) = literal

\* The first index from i on that holds no white space; Len(text) + 1 if there is none.
RECURSIVE SkipSpace(_, _)
SkipSpace(text, i) ==
    IF i <= Len(text) /\ text[i] \in WhiteSpace THEN SkipSpace(text, i + 1) ELSE i

\* A name between double quotes.
Quoted(name) == <<Quote>> \o name \o <<Quote>>

\* Concatenation of a sequence of chunks: Buffer.concat(chunks).toString('utf-8').
RECURSIVE Concat(_)
Concat(chunks) == IF chunks = <<>> THEN <<>> ELSE Head(chunks) \o Concat(Tail(chunks))

---------------------------------------------------------------------------
(* JSON.parse, for the objects written here: members with string names and *)
(* string values without escapes.  Every other text is a syntax error.     *)

SyntaxError == [ok |-> FALSE]

\* The string literal that starts at index i: its value and the index after it.
ReadString(text, i) ==
    IF i > Len(text) \/ text[i] # Quote THEN SyntaxError
    ELSE LET closing == {k \in (i + 1)..Len(text) : text[k] = Quote}
         IN  IF closing = {} THEN SyntaxError
             ELSE LET k == CHOOSE c \in closing : \A d \in closing : c <= d
                      value == SubSeq(text, i + 1, k - 1)
                  IN  IF \E j \in 1..Len(value) : value[j] \in {"\n", "\t", "\r", "\\"}
                      THEN SyntaxError
                      ELSE [ok |-> TRUE, value |-> value, next |-> k + 1]

\* The members from index i to the closing brace, which must end the text.
RECURSIVE ParseMembers(_, _, _)
ParseMembers(text, i, members) ==
    LET name == ReadString(text, SkipSpace(text, i))
        colon == SkipSpace(text, name.next)
        value == ReadString(text, SkipSpace(text, colon + 1))
        sep == SkipSpace(text, value.next)
        parsed == Append(members, [name |-> name.value, value |-> value.value])
    IN  IF ~name.ok THEN SyntaxError
        ELSE IF colon > Len(text) \/ text[colon] # ":" THEN SyntaxError
        ELSE IF ~value.ok THEN SyntaxError
        ELSE IF sep > Len(text) THEN SyntaxError
        ELSE IF text[sep] = "," THEN ParseMembers(text, sep + 1, parsed)
        ELSE IF text[sep] = "}" /\ SkipSpace(text, sep + 1) > Len(text)
             THEN [ok |-> TRUE, members |-> parsed]
        ELSE SyntaxError

JSONParse(text) ==
    LET open == SkipSpace(text, 1)
        first == SkipSpace(text, open + 1)
    IN  IF open > Len(text) \/ text[open] # "{" THEN SyntaxError
        ELSE IF first <= Len(text) /\ text[first] = "}"
             THEN IF SkipSpace(text, first + 1) > Len(text)
                  THEN [ok |-> TRUE, members |-> <<>>]
                  ELSE SyntaxError
        ELSE ParseMembers(text, open + 1, <<>>)

\* parsed.name: the value of the last member of that name.  A missing member reads as
\* the empty text: undefined and '' are both falsy, and the extractor tests only that.
Property(parsed, name) ==
    LET at == {i \in 1..Len(parsed.members) : parsed.members[i].name = name}
    IN  IF at = {} THEN <<>>
        ELSE parsed.members[CHOOSE i \in at : \A j \in at : j <= i].value

---------------------------------------------------------------------------
(* The output extractor. *)

ResponseField == <<"r", "e", "s", "p", "o", "n", "s", "e">>
ContentField == <<"c", "o", "n", "t", "e", "n", "t">>
ResultField == <<"r", "e", "s", "u", "l", "t">>
SessionIdField == <<"s", "e", "s", "s", "i", "o", "n", "_", "i", "d">>

\* /\{[\s\S]*?"(?:response|content|result)"\s*:\s*"([\s\S]*?)(?:"\s*[,}]|$)/ matches:
\* a brace, later one of the three names in quotes, a colon and an opening quote.  The
\* rest of the pattern matches whatever follows, through its $ alternative.
JsonMatch(text) ==
    \E i \in 1..Len(text) :
        /\ text[i] = "{"
        /\ \E j \in (i + 1)..Len(text), field \in {ResponseField, ContentField, ResultField} :
              /\ HasAt(text, j, Quoted(field))
              /\ LET colon == SkipSpace(text, j + Len(field) + 2)
                     quote == SkipSpace(text, colon + 1)
                 IN  /\ colon <= Len(text) /\ text[colon] = ":"
                     /\ quote <= Len(text) /\ text[quote] = Quote

\* /^\s*\{[\s\S]*"session_id"[\s\S]*\}\s*$/ matches the whole text.
SessionIdEnvelope(text) ==
    LET open == SkipSpace(text, 1)
    IN  /\ open <= Len(text) /\ text[open] = "{"
        /\ \E j \in (open + 1)..Len(text) :
              /\ HasAt(text, j, Quoted(SessionIdField))
              /\ \E close \in (j + Len(SessionIdField) + 2)..Len(text) :
                    text[close] = "}" /\ SkipSpace(text, close + 1) > Len(text)

\* extractMessageContent returned null.
NoMessage == [null |-> TRUE]

ExtractedMessage(content, jsonFormat, exitCode) ==
    [content |-> content,
     metadata |-> [extractedFromStdout |-> TRUE, jsonFormat |-> jsonFormat,
                   exitCode |-> exitCode]]

\* Mutant: a content of nine characters passes.
QualifiesFromNine(content) == Len(content) >= 9

\* content && typeof content === 'string' && content.length >= 10
Qualifies(content) == Len(content) >= 10

ExtractMessageContent(stdout, exitCode) ==
    LET trimmed == Trim(stdout)
        startIdx == IndexOf(trimmed, "{")
        endIdx == LastIndexOf(trimmed, "}")
        parsed == JSONParse(SubSeq(trimmed, startIdx, endIdx))
        response == Property(parsed, ResponseField)
        result_ == Property(parsed, ResultField)
        content == IF response # <<>> THEN response
                   ELSE IF Property(parsed, ContentField) # <<>>
                        THEN Property(parsed, ContentField)
                   ELSE result_
        cleaned == Trim(IF SessionIdEnvelope(trimmed) THEN <<>> ELSE trimmed)
    IN  IF Len(trimmed) < 10 THEN NoMessage
        ELSE IF /\ JsonMatch(trimmed)
                /\ startIdx # 0 /\ endIdx > startIdx
                /\ parsed.ok
                /\ Qualifies(content)
             THEN ExtractedMessage(content,
                                   IF response # <<>> THEN "gemini"
                                   ELSE IF result_ # <<>> THEN "claude"
                                   ELSE "generic",
                                   exitCode)
        ELSE IF Len(cleaned) >= 10 THEN ExtractedMessage(cleaned, "plaintext", exitCode)
        ELSE NoMessage

---------------------------------------------------------------------------
(* The process invoker: what it is called with, and what a process does. *)

\* null as an exit code, and an absent timeoutMs.
NullExitCode == -1
UndefinedMs == -1

\* Backend descriptors: a builtin one, and a custom one whose command is not its name.
BackendConfigs ==
    {[name |-> "claude", command |-> "claude", defaultModel |-> "claude-sonnet-4-5",
      timeoutMs |-> 2],
     [name |-> "local", command |-> "/opt/agent", defaultModel |-> "base",
      timeoutMs |-> 1]}

\* Requests: without overrides, with the falsy overrides, and with both overrides set.
ToolInputs ==
    {[model |-> Undefined, timeoutMs |-> UndefinedMs],
     [model |-> "", timeoutMs |-> 0],
     [model |-> "opus", timeoutMs |-> 1]}

\* Chunks a process writes.
JsonHead ==
    <<"{", "\"", "r", "e", "s", "p", "o", "n", "s", "e", "\"", ":", "\"", "H", "e",
      "l", "l", "o", ",", " ", "w", "o", "r">>
JsonTail ==
    <<"l", "d", "!", "\"", "}", "\n">>
PlainText ==
    <<"A", "l", "l", " ", "t", "e", "s", "t", "s", " ", "p", "a", "s", "s", "e", "d",
      ".", "\n">>
ShortText == <<"o", "k", "\n">>
SessionNoise ==
    <<"{", "\"", "s", "e", "s", "s", "i", "o", "n", "_", "i", "d", "\"", ":", "\"",
      "s", "1", "\"", "}", "\n">>
Warning == <<"b", "o", "o", "m", "\n">>

\* What a process writes before it exits, in order, on stdout and on stderr.
Scripts ==
    {[out |-> <<JsonHead, JsonTail>>, err |-> <<>>],
     [out |-> <<PlainText>>, err |-> <<>>],
     [out |-> <<ShortText>>, err |-> <<Warning>>],
     [out |-> <<SessionNoise>>, err |-> <<>>],
     [out |-> <<>>, err |-> <<Warning>>],
     [out |-> <<>>, err |-> <<>>]}

\* Exit codes a process ends with; null when a signal ended it.
ExitCodes == {0, 1, NullExitCode}

\* The message of the exception a failing spawn throws.
ThrownMessages == {"spawn E2BIG"}

\* The errors a ChildProcess emits: the spawn that failed after spawn returned, and the
\* abort of its signal.
SpawnError(command) == [name |-> "Error", message |-> "spawn " \o command \o " ENOENT"]
AbortError == [name |-> "AbortError", message |-> "The operation was aborted"]

\* What spawn does: it throws, it returns a child whose spawn has failed, or it returns
\* the child of a running process.
SpawnOutcomes ==
    {[kind |-> "throws", message |-> m, script |-> [out |-> <<>>, err |-> <<>>]] :
        m \in ThrownMessages}
    \cup {[kind |-> "fails", message |-> "", script |-> [out |-> <<>>, err |-> <<>>]]}
    \cup {[kind |-> "runs", message |-> "", script |-> sc] : sc \in Scripts}

\* The child spawn returns.  pid is 0 where Node leaves it undefined.  out and err are
\* the chunks written to the pipes and not yet read; wrote and wroteErr count the
\* chunks of the script written so far.
Spawned(outcome) ==
    [state |-> IF outcome.kind = "runs" THEN "running" ELSE "failed",
     pid |-> IF outcome.kind = "runs" THEN 1 ELSE 0,
     script |-> outcome.script,
     wrote |-> 0, wroteErr |-> 0, out |-> <<>>, err |-> <<>>,
     signalled |-> FALSE, exitCode |-> NullExitCode]

---------------------------------------------------------------------------
(* The process invoker: invokeCli and its callbacks. *)

MAX_BUFFER_SIZE == 5 * 1024 * 1024

\* Mutant: the chunk that crosses the limit is dropped whole.
AddWithinWholeChunks(max, collector, chunk) ==
    IF collector.truncated THEN collector
    ELSE IF collector.totalSize + Len(chunk) > max
         THEN [collector EXCEPT !.truncated = TRUE]
    ELSE [chunks |-> Append(collector.chunks, chunk),
          totalSize |-> collector.totalSize + Len(chunk),
          truncated |-> FALSE]

\* StdoutCollector.add, for a limit of max bytes.
AddWithin(max, collector, chunk) ==
    IF collector.truncated THEN collector
    ELSE IF collector.totalSize + Len(chunk) > max
         THEN LET remaining == max - collector.totalSize
              IN  [chunks |-> IF remaining > 0
                              THEN Append(collector.chunks, SubSeq(chunk, 1, remaining))
                              ELSE collector.chunks,
                   totalSize |-> IF remaining > 0 THEN max
                                 ELSE collector.totalSize,
                   truncated |-> TRUE]
    ELSE [chunks |-> Append(collector.chunks, chunk),
          totalSize |-> collector.totalSize + Len(chunk),
          truncated |-> FALSE]

\* StdoutCollector.add
Add(collector, chunk) == AddWithin(MAX_BUFFER_SIZE, collector, chunk)

\* input.model || config.defaultModel
EffectiveModel(cfg, input) ==
    IF input.model \in {Undefined, ""} THEN cfg.defaultModel ELSE input.model

\* Mutant: ?? for ||, a timeout of 0 is taken as given.
EffectiveTimeoutNullish(cfg, input) ==
    IF input.timeoutMs = UndefinedMs THEN cfg.timeoutMs ELSE input.timeoutMs

\* input.timeoutMs || config.timeoutMs
EffectiveTimeout(cfg, input) ==
    IF input.timeoutMs \in {UndefinedMs, 0} THEN cfg.timeoutMs ELSE input.timeoutMs

\* The locals of a call.
Entered(cfg, input) ==
    [config |-> cfg, input |-> input, startTime |-> now,
     model |-> EffectiveModel(cfg, input), timeoutMs |-> EffectiveTimeout(cfg, input)]

\* Mutant: the timeout is never armed.
TimeoutHandleUnarmed(c) == Null

\* setTimeout(() => ac.abort(), timeoutMs)
TimeoutHandle(c) == [sid |-> "invokeCli", at |-> c.startTime + c.timeoutMs]

\* Mutant: a later resolve replaces the value.
ResolveLastWins(current, value) == value

\* resolve: the first value settles the promise, a later one is ignored.
Resolve(current, value) == IF current = NoResult THEN value ELSE current

\* Mutant: the message does not say which command.
SpawnThrewUnnamed(c, message) ==
    [content |-> <<>>, success |-> FALSE, exitCode |-> NullExitCode,
     durationMs |-> now - c.startTime, backend |-> c.config.name, model |-> c.model,
     error |-> "Failed to spawn: " \o message]

\* The result of the catch around spawn.
SpawnThrew(c, message) ==
    [content |-> <<>>, success |-> FALSE, exitCode |-> NullExitCode,
     durationMs |-> now - c.startTime, backend |-> c.config.name, model |-> c.model,
     error |-> "Failed to spawn " \o c.config.command \o ": " \o message]

\* Mutant: the error's own message, whatever the error.
ErrorTextRaw(err, timeoutMs) == err.message

\* The error text of the 'error' handler.
ErrorText(err, timeoutMs) ==
    IF err.name = "AbortError"
    THEN "Timeout after " \o ToString(timeoutMs) \o "ms"
    ELSE err.message

\* The result of the 'error' handler.
OnError(c, err) ==
    [content |-> <<>>, success |-> FALSE, exitCode |-> NullExitCode,
     durationMs |-> now - c.startTime, backend |-> c.config.name, model |-> c.model,
     error |-> ErrorText(err, c.timeoutMs)]

\* Mutant: extracted content is a success whatever the exit code.
SucceedsOnContent(extracted, exitCode) == extracted # NoMessage

\* extracted && exitCode === 0
Succeeds(extracted, exitCode) == extracted # NoMessage /\ exitCode = 0

\* `${exitCode}`
CodeText(exitCode) == IF exitCode = NullExitCode THEN "null" ELSE ToString(exitCode)

\* Mutant: the raw stdout comes before the extracted content.
FailureContentRawFirst(extracted, stdout, stderr) ==
    IF stdout # <<>> THEN stdout
    ELSE IF extracted # NoMessage THEN extracted.content
    ELSE stderr

\* extracted?.content || stdout || stderr
FailureContent(extracted, stdout, stderr) ==
    IF extracted # NoMessage /\ extracted.content # <<>> THEN extracted.content
    ELSE IF stdout # <<>> THEN stdout
    ELSE stderr

\* The result of the 'exit' handler.
OnExit(c, collector, chunks, exitCode) ==
    LET stdout == Concat(collector.chunks)
        extracted == ExtractMessageContent(stdout, exitCode)
        stderr == Concat(chunks)
    IN  IF Succeeds(extracted, exitCode)
        THEN [content |-> extracted.content, success |-> TRUE, exitCode |-> exitCode,
              durationMs |-> now - c.startTime, backend |-> c.config.name,
              model |-> c.model]
        ELSE [content |-> FailureContent(extracted, stdout, stderr),
              success |-> FALSE, exitCode |-> exitCode,
              durationMs |-> now - c.startTime, backend |-> c.config.name,
              model |-> c.model,
              error |-> IF exitCode # 0
                        THEN "Process exited with code " \o CodeText(exitCode)
                        ELSE "Failed to extract response content"]

\* invokeCli up to the return of the promise.  The call is made while the clock of the
\* model can still reach its deadline.
InvokeCli(cfg, input) ==
    /\ call = NoCall
    /\ now + EffectiveTimeout(cfg, input) <= MaxTime
    /\ call' = Entered(cfg, input)
    /\ ac' = [aborted |-> FALSE]
    /\ stdoutCollector' = NewStdoutCollector
    /\ stderrChunks' = <<>>
    /\ \E outcome \in SpawnOutcomes :
          IF outcome.kind = "throws"
          THEN /\ timeout' = Null
               /\ child' = NoChild
               /\ result' = Resolve(result, SpawnThrew(Entered(cfg, input), outcome.message))
          ELSE /\ timeout' = TimeoutHandle(Entered(cfg, input))
               /\ child' = Spawned(outcome)
               /\ result' = result
    /\ UNCHANGED <<now, storeVars, hubVars, harnessVars>>

\* child.on('error') for the spawn that failed: it runs on the next tick.
ErrorEvent ==
    /\ child.state = "failed"
    /\ child' = [child EXCEPT !.state = "closed"]
    /\ timeout' = Null
    /\ result' = Resolve(result, OnError(call, SpawnError(call.config.command)))
    /\ UNCHANGED <<now, storeVars, hubVars, harnessVars, call, ac, stdoutCollector, stderrChunks>>

\* The timeout runs: ac.abort().  The child of a process whose exit has not been
\* reported is sent the kill signal and emits AbortError, which runs the 'error' handler
\* at once; a child that is closed is left alone.
TimeoutFires ==
    /\ timeout # Null
    /\ now >= timeout.at
    /\ child.state # "failed"
    /\ ac' = [aborted |-> TRUE]
    /\ timeout' = Null
    /\ IF child.state \in {"running", "exited"}
       THEN /\ child' = [child EXCEPT !.signalled = TRUE]
            /\ result' = Resolve(result, OnError(call, AbortError))
       ELSE UNCHANGED <<child, result>>
    /\ UNCHANGED <<now, storeVars, hubVars, harnessVars, call, stdoutCollector, stderrChunks>>

\* child.stdout.on('data')
StdoutData ==
    /\ child.state \in {"running", "exited", "closed"}
    /\ child.out # <<>>
    /\ stdoutCollector' = Add(stdoutCollector, Head(child.out))
    /\ child' = [child EXCEPT !.out = Tail(child.out)]
    /\ UNCHANGED <<now, storeVars, hubVars, harnessVars, call, timeout, ac, stderrChunks, result>>

\* child.stderr.on('data')
StderrData ==
    /\ child.state \in {"running", "exited", "closed"}
    /\ child.err # <<>>
    /\ stderrChunks' = Append(stderrChunks, Head(child.err))
    /\ child' = [child EXCEPT !.err = Tail(child.err)]
    /\ UNCHANGED <<now, storeVars, hubVars, harnessVars,
                   call, timeout, ac, stdoutCollector, result>>

\* Mutant: the exit handler leaves the timeout armed.
ExitEventKeepsTimeout ==
    /\ child.state = "exited"
    /\ child' = [child EXCEPT !.state = "closed"]
    /\ result' = Resolve(result, OnExit(call, stdoutCollector, stderrChunks, child.exitCode))
    /\ UNCHANGED <<now, storeVars, hubVars, harnessVars,
                   call, timeout, ac, stdoutCollector, stderrChunks>>

\* child.on('exit')
ExitEvent ==
    /\ child.state = "exited"
    /\ child' = [child EXCEPT !.state = "closed"]
    /\ timeout' = Null
    /\ result' = Resolve(result, OnExit(call, stdoutCollector, stderrChunks, child.exitCode))
    /\ UNCHANGED <<now, storeVars, hubVars, harnessVars, call, ac, stdoutCollector, stderrChunks>>

---------------------------------------------------------------------------
(* The process. *)

\* The process writes the next chunk of its output.
ProcessWrites ==
    /\ child.state = "running"
    /\ child.wrote < Len(child.script.out)
    /\ child' = [child EXCEPT !.wrote = @ + 1,
                              !.out = Append(@, child.script.out[child.wrote + 1])]
    /\ UNCHANGED <<now, storeVars, hubVars, harnessVars,
                   call, timeout, ac, stdoutCollector, stderrChunks, result>>

ProcessWritesErr ==
    /\ child.state = "running"
    /\ child.wroteErr < Len(child.script.err)
    /\ child' = [child EXCEPT !.wroteErr = @ + 1,
                              !.err = Append(@, child.script.err[child.wroteErr + 1])]
    /\ UNCHANGED <<now, storeVars, hubVars, harnessVars,
                   call, timeout, ac, stdoutCollector, stderrChunks, result>>

\* The process ends, at any point of its script, of itself or by a signal.
ProcessExits(exitCode) ==
    /\ child.state = "running"
    /\ child' = [child EXCEPT !.state = "exited", !.exitCode = exitCode]
    /\ UNCHANGED <<now, storeVars, hubVars, harnessVars,
                   call, timeout, ac, stdoutCollector, stderrChunks, result>>

---------------------------------------------------------------------------
(* One invocation. *)

InvokeInit ==
    /\ Init
    /\ config = [idleTimeoutMs |-> 1, maxContextTurns |-> 0, maxContextChars |-> 1]

InvokeNext ==
    \/ \E cfg \in BackendConfigs, input \in ToolInputs : InvokeCli(cfg, input)
    \/ ErrorEvent
    \/ TimeoutFires
    \/ StdoutData
    \/ StderrData
    \/ ExitEvent
    \/ ProcessWrites
    \/ ProcessWritesErr
    \/ \E exitCode \in ExitCodes : ProcessExits(exitCode)
    \/ Tick

InvokeSpec == InvokeInit /\ [][InvokeNext]_vars

\* The clock moves on, and the event loop runs the next-tick callback and the timer
\* that are due.  Nothing is asked of the process, which may never write or end, nor of
\* the delivery of what it writes and of its exit.
InvokeFairSpec ==
    /\ InvokeSpec
    /\ WF_vars(Tick)
    /\ WF_vars(ErrorEvent)
    /\ WF_vars(TimeoutFires)

---------------------------------------------------------------------------
(* Vocabulary of the invoker's properties. *)

\* The text contains the part, between one of the openings and one of the endings that
\* the messages here have.
Names(text, part) ==
    \E before \in {"Failed to spawn ", "spawn "},
       after \in {": " \o m : m \in ThrownMessages} \cup {" ENOENT"} :
        text = before \o part \o after

TimeoutText(c) == "Timeout after " \o ToString(c.timeoutMs) \o "ms"

\* The kinds of result.
IsSuccess(r) == r.success /\ r.exitCode = 0 /\ "error" \notin DOMAIN r

IsSpawnFailure(r, c) ==
    /\ ~r.success /\ "error" \in DOMAIN r
    /\ r.exitCode = NullExitCode
    /\ Names(r.error, c.config.command)

IsTimeout(r, c) ==
    /\ ~r.success /\ "error" \in DOMAIN r
    /\ r.exitCode = NullExitCode
    /\ r.content = <<>>
    /\ r.error = TimeoutText(c)

IsNonZeroExit(r) ==
    /\ ~r.success /\ "error" \in DOMAIN r
    /\ r.exitCode # 0
    /\ r.error = "Process exited with code " \o CodeText(r.exitCode)

IsExtractionFailure(r) ==
    /\ ~r.success /\ "error" \in DOMAIN r
    /\ r.exitCode = 0
    /\ r.error = "Failed to extract response content"

KindsOf(r, c) ==
    {k \in {"Success", "SpawnFailure", "Timeout", "NonZeroExit", "ExtractionFailure"} :
        \/ k = "Success" /\ IsSuccess(r)
        \/ k = "SpawnFailure" /\ IsSpawnFailure(r, c)
        \/ k = "Timeout" /\ IsTimeout(r, c)
        \/ k = "NonZeroExit" /\ IsNonZeroExit(r)
        \/ k = "ExtractionFailure" /\ IsExtractionFailure(r)}

\* The step is the 'exit' handler.
ExitObserved == child.state = "exited" /\ child'.state = "closed"

\* The spawn of the call has failed and the failure has been reported.
SpawnFailed == call # NoCall /\ (child = NoChild \/ (child.pid = 0 /\ child.state = "closed"))

---------------------------------------------------------------------------
(* The invoker's contract. *)

\* C16: the result of a call, once there, is never changed by a later event, and it is
\* of exactly one of the kinds Success, SpawnFailure, Timeout, NonZeroExit and
\* ExtractionFailure; a spawn that throws gives a result too.
C16_OneResultOfOneKind ==
    [][/\ result # NoResult => result' = result
       /\ result' # NoResult => Cardinality(KindsOf(result', call')) = 1]_vars

\* A success settled on the first chunk; the second chunk arrived after it.
C16_Witness ==
    /\ result # NoResult
    /\ result.success
    /\ result.content = JsonHead
    /\ stdoutCollector.chunks = <<JsonHead, JsonTail>>

\* C17: every call resolves in the end; once the timeout has run, cancellation has been
\* signalled and the call is resolved with the failure that states the timeout.
C17_EveryCallResolves ==
    /\ (call # NoCall) ~> (result # NoResult)
    /\ [](ac.aborted => /\ result # NoResult
                        /\ ~result.success
                        /\ result.error = TimeoutText(call))

\* Resolved by the timeout while the process, signalled, is still running.
C17_Witness ==
    /\ ac.aborted
    /\ result # NoResult
    /\ child.state = "running"
    /\ child.signalled

\* C18: a result is a success exactly when it comes from an exit with code 0 for which
\* the extractor returned content; a success carries that content, exit code 0 and no
\* error, and every other result carries an error message.
C18_SuccessIffZeroExitAndContent ==
    [][(result = NoResult /\ result' # NoResult) =>
         LET extracted == ExtractMessageContent(Concat(stdoutCollector.chunks),
                                                child.exitCode)
         IN  /\ result'.success <=>
                   (ExitObserved /\ child.exitCode = 0 /\ extracted # NoMessage)
             /\ result'.success =>
                   /\ result'.content = extracted.content
                   /\ result'.exitCode = 0
                   /\ "error" \notin DOMAIN result'
             /\ ~result'.success =>
                   /\ "error" \in DOMAIN result'
                   /\ result'.error # ""]_vars

\* A success that carries the response of the JSON the process wrote in two chunks.
C18_Witness ==
    /\ result # NoResult
    /\ result.success
    /\ result.exitCode = 0
    /\ Len(stdoutCollector.chunks) = 2
    /\ Len(result.content) = 13

\* C19: once the timeout has run, the result is the timeout failure: success false, exit
\* code unset, content empty and the error stating the effective timeout, whatever was
\* captured and whatever exit or error event comes later.
C19_TimeoutFailure ==
    ac.aborted => result # NoResult /\ IsTimeout(result, call)

\* Timed out with output captured, and the exit of the process reported afterwards.
C19_Witness ==
    /\ ac.aborted
    /\ IsTimeout(result, call)
    /\ stdoutCollector.chunks # <<>>
    /\ child.state = "closed"
    /\ child.exitCode = 0

\* C20: when the spawn has failed, by a throw or by the error event, the result is a
\* failure with exit code unset whose error names the command, no process is running
\* and the timeout is not armed.
C20_SpawnFailure ==
    SpawnFailed =>
        /\ result # NoResult
        /\ IsSpawnFailure(result, call)
        /\ child.state \notin {"running", "exited"}
        /\ timeout = Null

\* The throw of a spawn of the custom backend's command.
C20_Witness ==
    /\ call # NoCall
    /\ child = NoChild
    /\ call.config.command # call.config.name
    /\ result.error = "Failed to spawn /opt/agent: spawn E2BIG"

\* C21: a failure that comes from an exit carries the extracted content if there is any,
\* else the stdout if it is not empty, else the stderr; its error gives the exit code
\* whenever the code is not 0, and is the failed-to-extract message exactly when the code
\* is 0 and nothing was extracted.
C21_FailureContentAndError ==
    [][(result = NoResult /\ ExitObserved /\ ~result'.success) =>
         LET stdout == Concat(stdoutCollector.chunks)
             stderr == Concat(stderrChunks)
             extracted == ExtractMessageContent(stdout, child.exitCode)
         IN  /\ result'.content = IF extracted # NoMessage THEN extracted.content
                                  ELSE IF stdout # <<>> THEN stdout
                                  ELSE stderr
             /\ child.exitCode # 0 =>
                   result'.error = "Process exited with code " \o CodeText(child.exitCode)
             /\ result'.error = "Failed to extract response content"
                   <=> (child.exitCode = 0 /\ extracted = NoMessage)]_vars

\* An exit with code 1 after the whole JSON was captured: the content is the response
\* that was extracted, not the stdout.
C21_Witness ==
    /\ result # NoResult
    /\ ~result.success
    /\ result.exitCode = 1
    /\ stdoutCollector.chunks = <<JsonHead, JsonTail>>
    /\ Len(result.content) = 13

---------------------------------------------------------------------------
(* buildEnv on its own: the ambient environment is process.env, which the  *)
(* program's surroundings set before the hub spawns a child.               *)

ENV_ALLOWLIST ==
    <<"PATH", "HOME", "USER", "SHELL", "TERM", "NODE_ENV", "LANG", "LC_ALL", "LC_CTYPE">>

Elements(list) == {list[i] : i \in DOMAIN list}

\* The names the ambient environment may hold: the allow-list, the auth variables of
\* the default backends, and a secret of the calling agent.
AmbientNames ==
    Elements(ENV_ALLOWLIST)
        \cup {"ANTHROPIC_API_KEY", "GEMINI_API_KEY", "OPENAI_API_KEY", "CLAUDE_SESSION_KEY"}

\* The values of a variable that is set: the empty string is one.
AmbientValues == {"", "v"}

\* Variables set in the ambient environment per behaviour.
MaxEnv == 3

\* The authEnvVar of a config: the default backends', none, an empty one, and one that
\* is on the allow-list.
EnvConfigs ==
    {[name |-> "claude", authEnvVar |-> "ANTHROPIC_API_KEY"],
     [name |-> "gemini", authEnvVar |-> "GEMINI_API_KEY"],
     [name |-> "local", authEnvVar |-> Undefined],
     [name |-> "blank", authEnvVar |-> ""],
     [name |-> "home", authEnvVar |-> "HOME"]}

\* process.env[name]
Getenv(processEnv, name) ==
    IF name \in DOMAIN processEnv THEN processEnv[name] ELSE Undefined

\* Mutant: every variable that looks like a key is passed on.
BuildEnvEveryKey(cfg, processEnv) ==
    LET passed == {key \in DOMAIN processEnv :
                      /\ processEnv[key] # Undefined
                      /\ key \in Elements(ENV_ALLOWLIST)
                                    \cup {"ANTHROPIC_API_KEY", "GEMINI_API_KEY", "OPENAI_API_KEY"}}
    IN  [key \in passed |-> processEnv[key]]

\* buildEnv: the object it returns, as a function from the names it holds.
BuildEnv(cfg, processEnv) ==
    LET allowed == {key \in Elements(ENV_ALLOWLIST) : Getenv(processEnv, key) # Undefined}
        auth == IF /\ cfg.authEnvVar \notin {Undefined, ""}
                   /\ Getenv(processEnv, cfg.authEnvVar) \notin {Undefined, ""}
                THEN {cfg.authEnvVar}
                ELSE {}
    IN  [key \in allowed \cup auth |-> processEnv[key]]

\* process.env[name] = value
Setenv(name, value) ==
    /\ given[name] # Undefined \/ Cardinality({n \in AmbientNames : given[n] # Undefined}) < MaxEnv
    /\ given[name] # value
    /\ given' = [given EXCEPT ![name] = value]
    /\ returned' = <<>>
    /\ UNCHANGED <<now, storeVars, invokerVars, hubVars>>

\* buildEnv(config)
BuildEnvCall(cfg) ==
    /\ returned = <<>>
    /\ returned' = [config |-> cfg, env |-> BuildEnv(cfg, given)]
    /\ UNCHANGED <<now, storeVars, invokerVars, hubVars, given>>

\* The store, the invoker and the hub at rest.
ElsewhereIdle ==
    /\ config = [idleTimeoutMs |-> 1, maxContextTurns |-> 0, maxContextChars |-> 1]
    /\ sessions = <<>>
    /\ timers = {}
    /\ now = 0
    /\ issued = {}
    /\ calls = 0
    /\ last = NoEvent
    /\ InvokerIdle
    /\ HubIdle

EnvInit ==
    /\ ElsewhereIdle
    /\ given = [name \in AmbientNames |-> Undefined]
    /\ returned = <<>>

EnvNext ==
    \/ \E name \in AmbientNames, value \in AmbientValues : Setenv(name, value)
    \/ \E cfg \in EnvConfigs : BuildEnvCall(cfg)

EnvSpec == EnvInit /\ [][EnvNext]_vars

---------------------------------------------------------------------------
(* StdoutCollector on its own, with a limit small enough to be reached. *)

\* The limit that stands for MAX_BUFFER_SIZE, in bytes.
BufferLimit == 4

\* add calls per behaviour.
MaxAdds == 4

\* The chunks offered: of 0 to 3 bytes, no byte the same.
Chunks == {<<>>, <<"a">>, <<"b", "c">>, <<"d", "e", "f">>}

\* collector.add(chunk)
CollectorAdd(chunk) ==
    /\ Len(given) < MaxAdds
    /\ given' = Append(given, chunk)
    /\ returned' = AddWithin(BufferLimit, returned, chunk)
    /\ UNCHANGED <<now, storeVars, invokerVars, hubVars>>

CollectorInit ==
    /\ ElsewhereIdle
    /\ given = <<>>
    /\ returned = NewStdoutCollector

CollectorNext == \E chunk \in Chunks : CollectorAdd(chunk)

CollectorSpec == CollectorInit /\ [][CollectorNext]_vars

---------------------------------------------------------------------------
(* extractMessageContent on its own.  The texts are objects of up to MaxMembers     *)
(* members, whole or partial, bare or inside other output, and plain texts around   *)
(* the length of 10.                                                                *)

\* Members of an object per text.
MaxMembers == 3

LongResponse ==
    <<"H", "e", "l", "l", "o", ",", " ", "w", "o", "r", "l", "d", "!">>
ShortResponse ==
    <<"o", "k">>
LongContent ==
    <<"0", "1", "2", "3", "4", "5", "6", "7", "8", "9">>
ShortContent ==
    <<"1", "2", "3", "4", "5", "6", "7", "8", "9">>
LongResult ==
    <<"a", "b", "c", "d", "e", "f", "g", "h", "i", "j", "k", "l">>
SessionIdValue ==
    <<"s", "1">>
LogPrefix ==
    <<"l", "o", "g", " ">>
BracedSuffix ==
    <<" ", "{", "x", "}">>

\* "name":"value"
Member(name, value) == Quoted(name) \o <<":">> \o Quoted(value)

MemberKinds ==
    {[name |-> ResponseField, value |-> LongResponse],
     [name |-> ResponseField, value |-> ShortResponse],
     [name |-> ContentField, value |-> LongContent],
     [name |-> ContentField, value |-> ShortContent],
     [name |-> ResultField, value |-> LongResult],
     [name |-> SessionIdField, value |-> SessionIdValue]}

\* The member lists of an object: no name twice.
MemberLists ==
    {list \in UNION {[1..n -> MemberKinds] : n \in 0..MaxMembers} :
        \A i, j \in DOMAIN list : i # j => list[i].name # list[j].name}

RECURSIVE JoinMembers(_)
JoinMembers(list) ==
    IF list = <<>> THEN <<>>
    ELSE IF Len(list) = 1 THEN Member(list[1].name, list[1].value)
    ELSE Member(list[1].name, list[1].value) \o <<",">> \o JoinMembers(Tail(list))

\* What a CLI prints: an object, closed or cut before its brace, bare or with output
\* before and after it.
ObjectTexts ==
    {before \o <<"{">> \o JoinMembers(list) \o close \o after :
        before \in {<<>>, <<" ">>, LogPrefix},
        list \in MemberLists,
        close \in {<<"}">>, <<>>},
        after \in {<<>>, <<"\n">>, BracedSuffix}}

PlainTexts ==
    {<<>>, <<" ", "\n">>, ShortText, PlainText, ShortContent, LongContent,
     <<" ">> \o ShortContent \o <<"\n">>, <<"\t">> \o LongContent \o <<" ">>}

\* extractMessageContent(stdout, exitCode)
Extract(exitCode) ==
    /\ returned = <<>>
    /\ returned' = [exitCode |-> exitCode, value |-> ExtractMessageContent(given, exitCode)]
    /\ UNCHANGED <<now, storeVars, invokerVars, hubVars, given>>

ExtractInit ==
    /\ ElsewhereIdle
    /\ given \in ObjectTexts \cup PlainTexts
    /\ returned = <<>>

ExtractNext == \E exitCode \in ExitCodes : Extract(exitCode)

ExtractSpec == ExtractInit /\ [][ExtractNext]_vars

---------------------------------------------------------------------------
(* Properties of buildEnv and of the collector. *)

Least(a, b) == IF a < b THEN a ELSE b

\* C22: the names passed to the child are on the allow-list or are the config's auth
\* variable; the auth variable is passed only if it is configured and set in the
\* ambient environment; what is passed is what the ambient environment holds.
C22_OnlyAllowedNamesPassed ==
    returned # <<>> =>
        LET names == DOMAIN returned.env
            auth == returned.config.authEnvVar
        IN  /\ names \subseteq Elements(ENV_ALLOWLIST) \cup {auth}
            /\ auth \in names => auth # Undefined /\ given[auth] # Undefined
            /\ \A name \in names : given[name] # Undefined /\ returned.env[name] = given[name]

\* The claude config's key is passed while the gemini key, set too, is not.
C22_Witness ==
    /\ returned # <<>>
    /\ returned.config.authEnvVar = "ANTHROPIC_API_KEY"
    /\ given["GEMINI_API_KEY"] = "v"
    /\ given["CLAUDE_SESSION_KEY"] = "v"
    /\ DOMAIN returned.env = {"ANTHROPIC_API_KEY"}

\* C23: the collector holds the first min(offered, limit) bytes of all the chunks it
\* was offered, in order; it is truncated exactly if a byte offered was dropped; and
\* once truncated an add changes nothing.
C23_CollectorHoldsLeadingBytes ==
    [][LET offered == Concat(given')
           captured == Concat(returned'.chunks)
       IN  /\ returned'.totalSize = Least(Len(offered), BufferLimit)
           /\ Len(captured) = returned'.totalSize
           /\ captured = SubSeq(offered, 1, returned'.totalSize)
           /\ returned'.truncated <=> Len(captured) < Len(offered)
           /\ returned.truncated => returned' = returned]_vars

\* A chunk was cut: three bytes, then two of which one fits.
C23_Witness ==
    /\ given = <<<<"d", "e", "f">>, <<"b", "c">>>>
    /\ returned.truncated
    /\ Concat(returned.chunks) = <<"d", "e", "f", "b">>

---------------------------------------------------------------------------
(* Properties of the extractor. *)

\* The text is one JSON object, white space around it aside.
IsObject(text) == JSONParse(Trim(text)).ok

MemberNames(text) ==
    LET members == JSONParse(Trim(text)).members
    IN  {members[i].name : i \in DOMAIN members}

\* The fields in the order of their priority, and the format each stands for.
FieldsByPriority == <<ResponseField, ContentField, ResultField>>
FormatOf == <<"gemini", "generic", "claude">>

\* The fields of the object that hold a text of at least 10 characters.
QualifyingFields(text) ==
    {i \in DOMAIN FieldsByPriority :
        Len(Property(JSONParse(Trim(text)), FieldsByPriority[i])) >= 10}

\* The object between the first and the last brace of the text, if it is one.
Embedded(text) ==
    LET trimmed == Trim(text)
        startIdx == IndexOf(trimmed, "{")
        endIdx == LastIndexOf(trimmed, "}")
    IN  IF startIdx # 0 /\ endIdx > startIdx
        THEN SubSeq(trimmed, startIdx, endIdx)
        ELSE <<>>

\* C24: for an object whose fields are among response, content and result, the first
\* of these, in that order, that holds at least 10 characters is returned, with the
\* format of that field: gemini, generic, claude.
C24_HighestPriorityFieldWithItsFormat ==
    (/\ returned # <<>>
     /\ IsObject(given)
     /\ MemberNames(given) \subseteq {ResponseField, ContentField, ResultField}
     /\ QualifyingFields(given) # {})
        => LET first == CHOOSE i \in QualifyingFields(given) :
                            \A j \in QualifyingFields(given) : i <= j
           IN  returned.value =
                   ExtractedMessage(Property(JSONParse(Trim(given)), FieldsByPriority[first]),
                                    FormatOf[first], returned.exitCode)

\* C25: a text whose trimmed length is below 10, the empty and the blank text among
\* them, yields no content, and a content that is returned has at least 10 characters.
C25_NoContentBelowTen ==
    returned # <<>> =>
        /\ Len(Trim(given)) < 10 => returned.value = NoMessage
        /\ returned.value # NoMessage => Len(returned.value.content) >= 10

\* Nine characters between white space: eleven in all, and no content.
C25_Witness ==
    /\ returned # <<>>
    /\ Len(given) >= 10
    /\ Len(Trim(given)) = 9
    /\ returned.value = NoMessage

\* C26: a text of at least 10 characters that holds no object with a qualifying field,
\* be it malformed, partial or an object without one, is returned whole, trimmed, as
\* plaintext, unless it is one JSON object with a session_id member, which yields no
\* content.
C26_PlainTextUnlessSessionEnvelope ==
    (/\ returned # <<>>
     /\ Len(Trim(given)) >= 10
     /\ ~(IsObject(Embedded(given)) /\ QualifyingFields(Embedded(given)) # {}))
        => returned.value =
              IF IsObject(given) /\ SessionIdField \in MemberNames(given)
              THEN NoMessage
              ELSE ExtractedMessage(Trim(given), "plaintext", returned.exitCode)

---------------------------------------------------------------------------
(* The hub server: the tools createHubServer registers.  A tool handler is one   *)
(* step up to its await of invokeCli and one step from the toolResult on; invokeCli  *)
(* is the invoker above, seen here by the ToolResult it resolves with: result is *)
(* the ToolResult a step received, and NoResult in a step that received none.    *)

\* Tool calls per behaviour.
MaxToolCalls == 3

\* configs: two backends that are enabled and one that is not.
HubConfigs ==
    <<[name |-> "claude", enabled |-> TRUE, defaultModel |-> "claude-sonnet-4-5"],
      [name |-> "gemini", enabled |-> TRUE, defaultModel |-> "gemini-2.5-pro"],
      [name |-> "codex", enabled |-> FALSE, defaultModel |-> "codex-1"]>>

\* Mutant: the disabled backends are kept.
EnabledConfigsUnfiltered == HubConfigs

\* configs.filter((c) => c.enabled)
EnabledConfigs == SelectSeq(HubConfigs, LAMBDA c : c.enabled)

NoConfig == [name |-> Undefined]

\* list.find((c) => c.name === name)
Find(list, name) ==
    IF \E i \in DOMAIN list : list[i].name = name
    THEN list[CHOOSE i \in DOMAIN list :
                 list[i].name = name /\ \A j \in 1..(i - 1) : list[j].name # name]
    ELSE NoConfig

\* list.map((c) => c.name).join(', ')
RECURSIVE JoinNames(_)
JoinNames(list) ==
    IF list = <<>> THEN ""
    ELSE IF Len(list) = 1 THEN list[1].name
    ELSE list[1].name \o ", " \o JoinNames(Tail(list))

\* What the tools are called with.
\* hub-session-start: an enabled backend with and without options, the disabled one,
\* and a name that no config has.
StartInputs ==
    {[backend |-> "claude", model |-> Undefined, workingDir |-> Undefined],
     [backend |-> "gemini", model |-> "opus", workingDir |-> "/tmp"],
     [backend |-> "codex", model |-> Undefined, workingDir |-> Undefined],
     [backend |-> "nope", model |-> Undefined, workingDir |-> Undefined]}

\* <name>-agent: without a session id, with an empty one, and with either id.
AgentInputs ==
    {[tool |-> "claude", prompt |-> "a", model |-> Undefined, sessionId |-> Undefined],
     [tool |-> "gemini", prompt |-> "bb", model |-> "opus", sessionId |-> ""],
     [tool |-> "claude", prompt |-> "a", model |-> "opus", sessionId |-> "id1"],
     [tool |-> "gemini", prompt |-> "bb", model |-> Undefined, sessionId |-> "id1"],
     [tool |-> "claude", prompt |-> "a", model |-> Undefined, sessionId |-> "id2"]}

\* hub-session-message: either message to the first id, one to the second, and one to
\* the empty id.
MessageInputs ==
    {[sessionId |-> "id1", message |-> "a"],
     [sessionId |-> "id1", message |-> "bb"],
     [sessionId |-> "id2", message |-> "a"],
     [sessionId |-> "", message |-> "a"]}

\* What invokeCli resolves with, the fields of the call aside.
InvokeOutcomes ==
    {[success |-> TRUE, content |-> r, error |-> Undefined, exitCode |-> 0] : r \in Responses}
    \cup {[success |-> FALSE, content |-> "", error |-> "Process exited with code 1",
           exitCode |-> 1]}

\* The ToolResult of a call: backend, model and durationMs come from the call.
ResultOf(c, outcome) ==
    [success |-> outcome.success, content |-> outcome.content, error |-> outcome.error,
     exitCode |-> outcome.exitCode, backend |-> c.backend,
     model |-> EffectiveModel(Find(HubConfigs, c.backend), [model |-> c.model]),
     durationMs |-> now - c.startTime]

\* JSON.stringify({ sessionId, backend, model })
StartReply(sessionId, backend, model) ==
    "{\"sessionId\":\"" \o sessionId \o "\",\"backend\":\"" \o backend
        \o "\",\"model\":\"" \o model \o "\"}"

\* The text of a success: the content and a line of metadata.
Metadata(toolResult) ==
    "Backend: " \o toolResult.backend \o " | Model: " \o toolResult.model
        \o " | Duration: " \o ToString(toolResult.durationMs) \o "ms"

SuccessText(toolResult, metadata) == toolResult.content \o "\n\n---\n_" \o metadata \o "_"

\* The text of a failure.
FailureText(toolResult) ==
    "Hub invocation failed: "
        \o (IF toolResult.error \in {Undefined, ""} THEN "Unknown error" ELSE toolResult.error)
        \o "\n\nBackend: " \o toolResult.backend \o "\nExit code: " \o CodeText(toolResult.exitCode)

\* JSON.stringify(sessions, null, 2): a member that is undefined is left out.
InfoText(info) ==
    "  {\n    \"sessionId\": \"" \o info.sessionId
        \o "\",\n    \"backend\": \"" \o info.backend
        \o "\",\n    \"model\": \"" \o info.model \o "\""
        \o (IF info.workingDir = Undefined THEN ""
            ELSE ",\n    \"workingDir\": \"" \o info.workingDir \o "\"")
        \o ",\n    \"createdAt\": " \o ToString(info.createdAt)
        \o ",\n    \"lastActiveAt\": " \o ToString(info.lastActiveAt)
        \o ",\n    \"turnCount\": " \o ToString(info.turnCount) \o "\n  }"

RECURSIVE JoinInfos(_)
JoinInfos(infos) ==
    IF Len(infos) = 1 THEN InfoText(infos[1])
    ELSE InfoText(infos[1]) \o ",\n" \o JoinInfos(Tail(infos))

ListText(infos) == IF infos = <<>> THEN "[]" ELSE "[\n" \o JoinInfos(infos) \o "\n]"

\* What a handler returns: isError is the negation of ok.
Reply(tool, id, msg, isError, text, was) ==
    [op |-> tool, id |-> id, msg |-> msg, ok |-> ~isError, ret |-> text, was |-> was]

\* The handler is left by the exception recordResponse threw: it returns nothing, and
\* the promise of the handler is rejected with the error.
Rejected(tool, id, msg) ==
    [op |-> "rejected", id |-> id, msg |-> msg, ok |-> FALSE, ret |-> NotFound(id),
     was |-> <<>>]

\* The handler is at its await: invokeCli was called with the prompt.
Awaiting(c, was) ==
    [op |-> "invokeCli", id |-> c.sessionId, msg |-> c.prompt, ok |-> TRUE, ret |-> "",
     was |-> was]

ToolCalled == calls < MaxToolCalls /\ calls' = calls + 1

\* Mutant: no argument counts as a session id.
CarriesNever(sessionId) == FALSE

\* if (args.sessionId): undefined and '' are falsy.
Carries(sessionId) == sessionId \notin {Undefined, ""}

\* Mutant: the response is recorded whatever the result.
RecordsAlways(toolResult) == TRUE

\* if (result.success)
Records(toolResult) == toolResult.success

\* Mutant: the prompt of the call is passed on as it came.
ComposedPromptRaw(turns, prompt) == prompt

\* What buildPrompt returns for the turns it leaves.
ComposedPrompt(turns, prompt) == PromptFor(turns, prompt)

\* The tool <name>-agent, up to its await.
AgentTool(cfg, prompt, model, sessionId) ==
    /\ ToolCalled
    /\ LET tool == cfg.name \o "-agent"
           c == [cid |-> calls + 1, tool |-> tool, sessionId |-> sessionId,
                 message |-> prompt, prompt |-> prompt, backend |-> cfg.name,
                 model |-> model, startTime |-> now]
       IN  IF ~Carries(sessionId)
           THEN /\ inflight' = inflight \cup {c}
                /\ last' = Awaiting(c, <<>>)
                /\ UNCHANGED <<sessions, timers>>
           ELSE IF ~MapHas(sessions, sessionId)
           THEN /\ last' = Reply(tool, sessionId, prompt, TRUE,
                                 "Session error: " \o NotFound(sessionId), <<>>)
                /\ UNCHANGED <<sessions, timers, inflight>>
           ELSE LET session == MapGet(sessions, sessionId)
                    trimmed == TurnsAfterBuildPrompt(session.turns, prompt)
                    built == [c EXCEPT !.prompt = ComposedPrompt(trimmed, prompt)]
                IN  /\ sessions' = MapSet(sessions, sessionId, Touched(session, trimmed))
                    /\ timers' = ResetIdleTimer(timers, session)
                    /\ inflight' = inflight \cup {built}
                    /\ last' = Awaiting(built, session.turns)
    /\ result' = NoResult
    /\ UNCHANGED <<config, now, issued, harnessVars>>
    /\ UNCHANGED <<call, timeout, ac, child, stdoutCollector, stderrChunks>>

\* The tool <name>-agent, from the result of invokeCli on.
AgentToolResolves(c, outcome) ==
    /\ c \in inflight
    /\ c.tool # "hub-session-message"
    /\ inflight' = inflight \ {c}
    /\ result' = ResultOf(c, outcome)
    /\ LET toolResult == ResultOf(c, outcome)
       IN  IF Records(toolResult) /\ Carries(c.sessionId)
           THEN IF ~MapHas(sessions, c.sessionId)
                THEN /\ last' = Rejected(c.tool, c.sessionId, c.message)
                     /\ UNCHANGED <<sessions, timers>>
                ELSE LET session == MapGet(sessions, c.sessionId)
                         pushed == TurnsAfterRecordResponse(session.turns, toolResult.content)
                     IN  /\ sessions' = MapSet(sessions, c.sessionId, Touched(session, pushed))
                         /\ timers' = ResetIdleTimer(timers, session)
                         /\ last' = Reply(c.tool, c.sessionId, c.message, FALSE,
                                          SuccessText(toolResult, Metadata(toolResult)),
                                          session.turns)
           ELSE /\ last' = IF toolResult.success
                           THEN Reply(c.tool, c.sessionId, c.message, FALSE,
                                      SuccessText(toolResult, Metadata(toolResult)), <<>>)
                           ELSE Reply(c.tool, c.sessionId, c.message, TRUE,
                                      FailureText(toolResult), <<>>)
                /\ UNCHANGED <<sessions, timers>>
    /\ UNCHANGED <<config, now, issued, calls, harnessVars>>
    /\ UNCHANGED <<call, timeout, ac, child, stdoutCollector, stderrChunks>>

\* The tool hub-session-start.
HubSessionStart(backend, model, workingDir) ==
    /\ ToolCalled
    /\ LET backendConfig == Find(EnabledConfigs, backend)
       IN  IF backendConfig = NoConfig
           THEN /\ last' = Reply("hub-session-start", "", backend, TRUE,
                                 "Unknown or disabled backend: \"" \o backend
                                     \o "\". Available: " \o JoinNames(EnabledConfigs),
                                 <<>>)
                /\ UNCHANGED <<sessions, timers, issued>>
           ELSE \E id \in RandomUUID :
                  LET session == NewSession(id, backend, model, workingDir)
                  IN  /\ issued' = issued \cup {id}
                      /\ sessions' = MapSet(sessions, id,
                                            [session EXCEPT !.idleTimer = IdleHandle(session)])
                      /\ timers' = ResetIdleTimer(timers, session)
                      /\ last' = Reply("hub-session-start", id, backend, FALSE,
                                       StartReply(id, backend,
                                                  EffectiveModel(backendConfig,
                                                                 [model |-> model])),
                                       <<>>)
    /\ result' = NoResult
    /\ UNCHANGED <<config, now, inflight, harnessVars>>
    /\ UNCHANGED <<call, timeout, ac, child, stdoutCollector, stderrChunks>>

\* The tool hub-session-message, up to its await.
HubSessionMessage(sessionId, message) ==
    /\ ToolCalled
    /\ LET tool == "hub-session-message"
       IN  IF ~MapHas(sessions, sessionId)
           THEN /\ last' = Reply(tool, sessionId, message, TRUE, NotFound(sessionId), <<>>)
                /\ UNCHANGED <<sessions, timers, inflight>>
           ELSE LET session == MapGet(sessions, sessionId)
                    backendConfig == Find(EnabledConfigs, session.backend)
                    trimmed == TurnsAfterBuildPrompt(session.turns, message)
                    c == [cid |-> calls + 1, tool |-> tool, sessionId |-> sessionId,
                          message |-> message, prompt |-> ComposedPrompt(trimmed, message),
                          backend |-> backendConfig.name,
                          model |-> IF session.model = "" THEN Undefined ELSE session.model,
                          startTime |-> now]
                IN  IF backendConfig = NoConfig
                    THEN /\ last' = Reply(tool, sessionId, message, TRUE,
                                          "Backend \"" \o session.backend
                                              \o "\" is no longer available", <<>>)
                         /\ UNCHANGED <<sessions, timers, inflight>>
                    ELSE /\ sessions' = MapSet(sessions, sessionId, Touched(session, trimmed))
                         /\ timers' = ResetIdleTimer(timers, session)
                         /\ inflight' = inflight \cup {c}
                         /\ last' = Awaiting(c, session.turns)
    /\ result' = NoResult
    /\ UNCHANGED <<config, now, issued, harnessVars>>
    /\ UNCHANGED <<call, timeout, ac, child, stdoutCollector, stderrChunks>>

\* The tool hub-session-message, from the result of invokeCli on.
HubSessionMessageResolves(c, outcome) ==
    /\ c \in inflight
    /\ c.tool = "hub-session-message"
    /\ inflight' = inflight \ {c}
    /\ result' = ResultOf(c, outcome)
    /\ LET toolResult == ResultOf(c, outcome)
       IN  IF Records(toolResult)
           THEN IF ~MapHas(sessions, c.sessionId)
                THEN /\ last' = Rejected(c.tool, c.sessionId, c.message)
                     /\ UNCHANGED <<sessions, timers>>
                ELSE LET session == MapGet(sessions, c.sessionId)
                         pushed == TurnsAfterRecordResponse(session.turns, toolResult.content)
                     IN  /\ sessions' = MapSet(sessions, c.sessionId, Touched(session, pushed))
                         /\ timers' = ResetIdleTimer(timers, session)
                         /\ last' = Reply(c.tool, c.sessionId, c.message, FALSE,
                                          SuccessText(toolResult,
                                                      Metadata(toolResult) \o " | Session: "
                                                          \o c.sessionId),
                                          session.turns)
           ELSE /\ last' = Reply(c.tool, c.sessionId, c.message, TRUE,
                                 FailureText(toolResult), <<>>)
                /\ UNCHANGED <<sessions, timers>>
    /\ UNCHANGED <<config, now, issued, calls, harnessVars>>
    /\ UNCHANGED <<call, timeout, ac, child, stdoutCollector, stderrChunks>>

\* The tool hub-session-stop.
HubSessionStop(sessionId) ==
    /\ ToolCalled
    /\ IF ~MapHas(sessions, sessionId)
       THEN /\ last' = Reply("hub-session-stop", sessionId, "", TRUE, NotFound(sessionId),
                             <<>>)
            /\ UNCHANGED <<sessions, timers>>
       ELSE LET session == MapGet(sessions, sessionId)
            IN  /\ timers' = StopIdleTimer(timers, session)
                /\ sessions' = MapDelete(sessions, sessionId)
                /\ last' = Reply("hub-session-stop", sessionId, "", FALSE,
                                 "Session " \o sessionId \o " stopped", session.turns)
    /\ result' = NoResult
    /\ UNCHANGED <<config, now, issued, inflight, harnessVars>>
    /\ UNCHANGED <<call, timeout, ac, child, stdoutCollector, stderrChunks>>

\* The tool hub-session-list.
HubSessionList ==
    /\ ToolCalled
    /\ last' = Reply("hub-session-list", "", "", FALSE,
                     ListText([i \in 1..Len(sessions) |-> ToSessionInfo(sessions[i])]),
                     <<>>)
    /\ result' = NoResult
    /\ UNCHANGED <<config, sessions, timers, now, issued, inflight, harnessVars>>
    /\ UNCHANGED <<call, timeout, ac, child, stdoutCollector, stderrChunks>>

\* sessionConfig: two turns of one character fit, a turn of two drops the one before.
HubSessionConfig == [idleTimeoutMs |-> 2, maxContextTurns |-> 3, maxContextChars |-> 2]

HubInit ==
    /\ config = HubSessionConfig
    /\ sessions = <<>>
    /\ timers = {}
    /\ now = 0
    /\ issued = {}
    /\ calls = 0
    /\ last = NoEvent
    /\ InvokerIdle
    /\ HubIdle
    /\ HarnessIdle

HubNext ==
    \/ \E a \in AgentInputs :
            AgentTool(Find(EnabledConfigs, a.tool), a.prompt, a.model, a.sessionId)
    \/ \E c \in inflight, outcome \in InvokeOutcomes : AgentToolResolves(c, outcome)
    \/ \E a \in StartInputs : HubSessionStart(a.backend, a.model, a.workingDir)
    \/ \E a \in MessageInputs : HubSessionMessage(a.sessionId, a.message)
    \/ \E c \in inflight, outcome \in InvokeOutcomes : HubSessionMessageResolves(c, outcome)
    \/ \E sessionId \in SessionIds : HubSessionStop(sessionId)
    \/ HubSessionList
    \/ \E h \in timers : IdleTimerFires(h)
    \/ Tick

HubSpec == HubInit /\ [][HubNext]_vars

---------------------------------------------------------------------------
(* Properties of the hub server. *)

MessageTool == "hub-session-message"

AgentToolNames == {HubConfigs[i].name \o "-agent" : i \in DOMAIN HubConfigs}

TurnsIn(map, id) == MapGet(map, id).turns

\* A tool is called in this step.
ToolCall == calls' = calls + 1

\* The calls that reach their await in this step, and those whose invocation resolves.
Begun == inflight' \ inflight
Resolved == inflight \ inflight'

\* The step leaves the sessions and their timers as they are.
StoreSame == sessions' = sessions /\ timers' = timers /\ issued' = issued

\* An error result, no invocation, and the store as it was.
ErrorWithoutInvocation ==
    /\ last'.op # "invokeCli"
    /\ ~last'.ok
    /\ inflight' = inflight
    /\ StoreSame

\* The call is a session message or an agent tool call, and it passes this session id.
MessageCallWith(sessionId) ==
    /\ ToolCall
    /\ last'.op \in {"invokeCli", MessageTool} \cup AgentToolNames
    /\ last'.id = sessionId

\* The call is an agent tool call.
AgentToolCall ==
    /\ ToolCall
    /\ last'.op \in AgentToolNames \/ \E c \in Begun : c.tool \in AgentToolNames

\* A failed invocation of a session message ends in an error result and changes nothing.
FailureChangesNothing ==
    \A c \in Resolved :
        (c.tool = MessageTool /\ ~result'.success) =>
            /\ last'.op = MessageTool
            /\ ~last'.ok
            /\ last'.id = c.sessionId
            /\ sessions' = sessions
            /\ timers' = timers

\* C27: a session message, or an agent tool call that carries a session id that is not
\* empty, for an id that is not in the store gives an error result, invokes no backend
\* and leaves the store as it was.  An agent tool call with the empty id is a call
\* without a session: the backend is invoked with the prompt as it came.
C27_UnknownSessionIdInvokesNothing ==
    [][\A sessionId \in SessionIds \cup {""} :
          (MessageCallWith(sessionId) /\ sessionId \notin Ids(sessions)) =>
              IF sessionId = "" /\ AgentToolCall
              THEN /\ last'.op = "invokeCli"
                   /\ \E c \in Begun : c.sessionId = "" /\ c.prompt = c.message
                   /\ StoreSame
              ELSE ErrorWithoutInvocation]_vars

\* C27 as stated: so it is for every session id a call carries, the empty one too.
C27_AnyCarriedSessionIdInvokesNothing ==
    [][\A sessionId \in SessionIds \cup {""} :
          (MessageCallWith(sessionId) /\ sessionId \notin Ids(sessions))
              => ErrorWithoutInvocation]_vars

\* An agent tool was called with the id of a session that is no longer in the store.
C27_Witness ==
    /\ last.op \in AgentToolNames
    /\ ~last.ok
    /\ last.id \in issued
    /\ ~Live(last.id)
    /\ last.ret = "Session error: Session not found: " \o last.id
    /\ inflight = {}

\* C28: a session message whose invocation fails gives an error result, and its failure
\* changes nothing in the store: no assistant turn, no rollback.  The turn list that
\* buildPrompt left when the call began is the list before the call with the user turn
\* appended, less the oldest turns that trimming dropped, and the history of the prompt
\* is what that list holds before the user turn.
C28_FailedMessageRecordsNothing ==
    [][/\ \A c \in Begun :
             c.tool = MessageTool =>
                 LET appended == Append(TurnsIn(sessions, c.sessionId), UserTurn(c.message))
                     left == TurnsIn(sessions', c.sessionId)
                 IN  /\ \E k \in 1..Len(appended) : left = Suffix(appended, k)
                     /\ c.prompt = PromptFor(left, c.message)
       /\ FailureChangesNothing]_vars

\* C28 as stated: the turn list differs from the one before the call by the user turn
\* alone, so that a message that failed before is history in the prompt.
C28_FailedMessageLeavesOnlyTheUserTurn ==
    [][/\ \A c \in Begun :
             c.tool = MessageTool =>
                 LET appended == Append(TurnsIn(sessions, c.sessionId), UserTurn(c.message))
                 IN  /\ TurnsIn(sessions', c.sessionId) = appended
                     /\ c.prompt = PromptFor(appended, c.message)
       /\ FailureChangesNothing]_vars

\* The invocation of the first message of a session has failed: the session is live and
\* holds the user turn alone.
C28_Witness ==
    /\ last.op = MessageTool
    /\ ~last.ok
    /\ result # NoResult
    /\ ~result.success
    /\ Live(last.id)
    /\ Len(TurnsOf(last.id)) = 1
    /\ TurnsOf(last.id)[1].role = "user"
    /\ TurnsOf(last.id)[1].content = last.msg

\* C29: an agent tool call without a session id passes its prompt on as it is and leaves
\* the store alone, when it begins and when it ends.  With the id of a live session the
\* prompt is the one buildPrompt composes from the turns it leaves, and the response is
\* recorded as an assistant turn of the session if the invocation succeeds; if it fails
\* nothing is recorded.
C29_AgentToolStatelessOrInSession ==
    [][\A c \in Begun \cup Resolved :
          c.tool \in AgentToolNames =>
              IF c.sessionId = Undefined
              THEN /\ c \in Begun => c.prompt = c.message
                   /\ StoreSame
              ELSE IF c.sessionId \in Ids(sessions)
              THEN /\ c \in Begun =>
                         LET appended == Append(TurnsIn(sessions, c.sessionId),
                                                UserTurn(c.message))
                             left == TurnsIn(sessions', c.sessionId)
                         IN  /\ \E k \in 1..Len(appended) : left = Suffix(appended, k)
                             /\ c.prompt = PromptFor(left, c.message)
                   /\ c \in Resolved =>
                         IF result'.success
                         THEN /\ last'.ok
                              /\ TurnsIn(sessions', c.sessionId)
                                    = Append(TurnsIn(sessions, c.sessionId),
                                             AssistantTurn(result'.content))
                         ELSE /\ ~last'.ok
                              /\ sessions' = sessions
                              /\ timers' = timers
              ELSE TRUE]_vars

\* An agent tool call with a session id has succeeded: the response is the last turn of
\* the session, after the user turn.
C29_Witness ==
    /\ last.op \in AgentToolNames
    /\ last.ok
    /\ last.id \in SessionIds
    /\ Live(last.id)
    /\ Len(TurnsOf(last.id)) >= 2
    /\ TurnsOf(last.id)[Len(TurnsOf(last.id))].role = "assistant"
    /\ TurnsOf(last.id)[Len(TurnsOf(last.id))].content = result.content

\* C30: hub-session-start with the name of no enabled backend gives an error result and
\* leaves the sessions and the timers as they are; with the name of an enabled backend
\* it adds one session, with no turns and an armed idle timer, and returns its id.
C30_StartCreatesOneSessionOrNone ==
    [][(ToolCall /\ last'.op = "hub-session-start") =>
          IF \E i \in DOMAIN HubConfigs :
                  HubConfigs[i].name = last'.msg /\ HubConfigs[i].enabled
          THEN LET id == last'.id
                   handle == [sid |-> id, at |-> now + config.idleTimeoutMs]
                   session == MapGet(sessions', id)
               IN  /\ last'.ok
                   /\ id \notin Ids(sessions)
                   /\ Ids(sessions') = Ids(sessions) \cup {id}
                   /\ Without(sessions', id) = sessions
                   /\ session.turns = <<>>
                   /\ session.backend = last'.msg
                   /\ handle \notin timers
                   /\ timers' = timers \cup {handle}
                   /\ session.idleTimer = handle
                   /\ last'.ret = StartReply(id, last'.msg,
                                             IF session.model # "" THEN session.model
                                             ELSE Find(HubConfigs, last'.msg).defaultModel)
          ELSE /\ ~last'.ok
               /\ StoreSame]_vars

\* A second session was started beside the first.
C30_Witness ==
    /\ last.op = "hub-session-start"
    /\ last.ok
    /\ Len(sessions) = 2
    /\ sessions[2].id = last.id
    /\ sessions[2].turns = <<>>
    /\ TimersOf(timers, last.id) # {}

\* C31: every session message and every agent tool call with a session id returns a
\* result, a success or an error result, when its invocation resolves: also when the
\* session was stopped or evicted while the invocation was in flight and the invocation
\* succeeds, where recordResponse throws 'Session not found'.
C31_MessageCallsReturnAResult ==
    [][\A c \in Resolved :
          (c.tool = MessageTool \/ Carries(c.sessionId)) =>
              /\ last'.op = c.tool
              /\ last'.id = c.sessionId]_vars

\* The user turn buildPrompt appended for a call, and the place of the last turn that
\* equals it in a turn list (0 if there is none).
UserTurnOf(c) == [role |-> "user", content |-> c.message, timestamp |-> c.startTime]

PlaceOf(turns, turn) ==
    LET places == {i \in 1..Len(turns) : turns[i] = turn}
    IN  IF places = {} THEN 0 ELSE CHOOSE i \in places : \A j \in places : j <= i

\* The invocation of a call on a live session resolves with success after another call
\* on the session has completed while this one was in flight: an assistant turn stands
\* behind the user turn of this call.
CompletesAfterAnother(c) ==
    /\ c \in Resolved
    /\ Carries(c.sessionId)
    /\ c.sessionId \in Ids(sessions)
    /\ result'.success
    /\ LET turns == TurnsIn(sessions, c.sessionId)
           place == PlaceOf(turns, UserTurnOf(c))
       IN  /\ place > 0
           /\ \E i \in (place + 1)..Len(turns) : turns[i].role = "assistant"

\* C32: two message calls on one session overlap, and the second to complete writes its
\* response.  Nothing is overwritten: the turn list afterwards is the list as the other
\* call left it, its user turn and its response included, with the response of this call
\* appended.
C32_OverlappingWritesAreAppended ==
    [][\A c \in inflight :
          CompletesAfterAnother(c) =>
              TurnsIn(sessions', c.sessionId)
                  = Append(TurnsIn(sessions, c.sessionId), AssistantTurn(result'.content))]_vars

\* C32 as stated: the last write wins, the list afterwards holds what this call read
\* when it began and its response, and what the other call wrote meanwhile is gone.
C32_LastWriteWins ==
    [][\A c \in inflight :
          CompletesAfterAnother(c) =>
              LET turns == TurnsIn(sessions, c.sessionId)
                  place == PlaceOf(turns, UserTurnOf(c))
              IN  TurnsIn(sessions', c.sessionId)
                      = Append(SubSeq(turns, 1, place), AssistantTurn(result'.content))]_vars

\* Two message calls on one session overlapped and both have completed: the list holds
\* the two user turns and then the two responses.
C32_Witness ==
    /\ inflight = {}
    /\ last.op = MessageTool
    /\ last.ok
    /\ Live(last.id)
    /\ Len(TurnsOf(last.id)) = 4
    /\ Len(last.was) = 3
    /\ \A i \in 1..4 : TurnsOf(last.id)[i].role = IF i <= 2 THEN "user" ELSE "assistant"

---------------------------------------------------------------------------
(* Overrides, late output and the timer of the invoker. *)

\* The call uses the model and the timeout of its request unless the request leaves
\* them out, where the values in the two sets are what counts as left out: the model is
\* the one of the result, and the timeout is the one the timer is armed with and the one
\* a timeout failure names.
OverridesUnless(noModels, noTimeouts) ==
    call # NoCall =>
        LET model == IF call.input.model \in noModels
                     THEN call.config.defaultModel ELSE call.input.model
            timeoutMs == IF call.input.timeoutMs \in noTimeouts
                         THEN call.config.timeoutMs ELSE call.input.timeoutMs
        IN  /\ call.model = model
            /\ call.timeoutMs = timeoutMs
            /\ timeout # Null => timeout.at = call.startTime + timeoutMs
            /\ result # NoResult => result.model = model
            /\ ac.aborted =>
                  /\ result # NoResult
                  /\ result.error = "Timeout after " \o ToString(timeoutMs) \o "ms"

\* C33: the model and the timeout of an invocation are the overrides of the request
\* where it supplies a model that is not empty and a timeout that is not 0, and the
\* defaults of the backend otherwise: an empty model and a timeout of 0 count as not
\* supplied.  The timeout a timeout failure names is that value.
C33_TruthyOverridesElseDefaults == OverridesUnless({Undefined, ""}, {UndefinedMs, 0})

\* C33 as stated: every override the request supplies is used, the empty model and the
\* timeout of 0 too.
C33_EveryOverrideElseDefaults == OverridesUnless({Undefined}, {UndefinedMs})

\* A call with both overrides has timed out: the failure names the timeout of the
\* request, not the longer one of the backend, and the model of the request.
C33_Witness ==
    /\ call # NoCall
    /\ call.input.model = "opus"
    /\ call.input.timeoutMs = 1
    /\ call.config.timeoutMs = 2
    /\ ac.aborted
    /\ result # NoResult
    /\ result.error = "Timeout after 1ms"
    /\ result.model = "opus"

---------------------------------------------------------------------------
(* Messages to a session under every sessionConfig: the server is created with any of *)
(* the limits, and sessions are started and sent messages.                            *)

MessageInit ==
    /\ config \in [idleTimeoutMs : {2}, maxContextTurns : TurnLimits,
                   maxContextChars : CharLimits]
    /\ sessions = <<>>
    /\ timers = {}
    /\ now = 0
    /\ issued = {}
    /\ calls = 0
    /\ last = NoEvent
    /\ InvokerIdle
    /\ HubIdle
    /\ HarnessIdle

MessageNext ==
    \/ \E a \in StartInputs : HubSessionStart(a.backend, a.model, a.workingDir)
    \/ \E a \in MessageInputs : HubSessionMessage(a.sessionId, a.message)
    \/ \E c \in inflight, outcome \in InvokeOutcomes : HubSessionMessageResolves(c, outcome)
    \/ \E h \in timers : IdleTimerFires(h)
    \/ Tick

MessageSpec == MessageInit /\ [][MessageNext]_vars

\* A session message reaches its await for a session that held turns when it was called.
MessageToHeldTurns(c) ==
    /\ c \in Begun
    /\ c.tool = MessageTool
    /\ TurnsIn(sessions, c.sessionId) # <<>>

\* C34: the prompt of a session message to a session that holds turns carries as
\* history the turns that trimming has left before the message, in the envelope; where
\* trimming has left no turn before the message, the prompt is the bare message.
C34_PromptCarriesTheTurnsTrimmingLeft ==
    [][\A c \in inflight' :
          MessageToHeldTurns(c) =>
              LET left == TurnsIn(sessions', c.sessionId)
              IN  c.prompt = IF Len(left) > 1
                             THEN Wrapped(Earlier(left), c.message)
                             ELSE c.message]_vars

\* C34 as stated: the prompt is never the bare message, it carries turns the session
\* held as history.
C34_PromptAlwaysCarriesHistory ==
    [][\A c \in inflight' :
          MessageToHeldTurns(c) =>
              LET turns == TurnsIn(sessions, c.sessionId)
              IN  \E k \in 1..Len(turns) :
                      c.prompt = Wrapped(Suffix(turns, k), c.message)]_vars

\* A second message was sent to a session: the prompt carries the first message and its
\* response as history.
C34_Witness ==
    /\ last.op = "invokeCli"
    /\ Len(last.was) = 2
    /\ \E c \in inflight :
          /\ c.tool = MessageTool
          /\ c.sessionId = last.id
          /\ c.prompt = last.msg
          /\ c.prompt = Wrapped(last.was, c.message)
          /\ c.prompt # c.message

---------------------------------------------------------------------------
(* The newest turn after buildPrompt. *)

\* The turn list of the session ends with the user turn of the message just appended.
EndsWithTheMessage ==
    LET turns == TurnsOf(last.id)
    IN  /\ turns # <<>>
        /\ turns[Len(turns)].role = "user"
        /\ turns[Len(turns)].content = last.msg

\* C35: after buildPrompt(id, m) on a live session with maxContextTurns of 1 or more,
\* whatever maxContextChars, the turn list is not empty and its last turn is the user
\* turn with content m; with maxContextTurns of 0 the count loop removes every turn, the
\* one just appended too, and the list is empty.
C35_NewestTurnKeptUnlessLimitIsZero ==
    Succeeded("buildPrompt") =>
        IF config.maxContextTurns >= 1
        THEN EndsWithTheMessage
        ELSE TurnsOf(last.id) = <<>>

\* C35 as stated: so it is for every maxContextTurns, 0 included.
C35_NewestTurnAlwaysKept == Succeeded("buildPrompt") => EndsWithTheMessage

\* A message longer than maxContextChars was appended to a session that held a turn:
\* the earlier turn is gone and the message is the one turn left.
C35_Witness ==
    /\ Succeeded("buildPrompt")
    /\ last.was # <<>>
    /\ Len(last.msg) > config.maxContextChars
    /\ Len(TurnsOf(last.id)) = 1
    /\ EndsWithTheMessage

---------------------------------------------------------------------------
(* The backend and the model of the invocations made for a session. *)

\* A call reaches its await with a prompt that buildPrompt composed from the session.
ComposedFrom(c, sessionId) ==
    /\ c \in Begun
    /\ Carries(c.sessionId)
    /\ c.sessionId = sessionId
    /\ sessionId \in Ids(sessions)

\* The model hub-session-start reports for a session: the one it was started with, or
\* the default of its backend.
ReportedModel(session) ==
    IF session.model # "" THEN session.model
    ELSE Find(HubConfigs, session.backend).defaultModel

\* The model invokeCli runs the call with.
InvokedModel(c) == EffectiveModel(Find(HubConfigs, c.backend), [model |-> c.model])

\* C36: every invocation whose prompt was composed from a session, by a session message
\* or by an agent tool called with the id of the session, goes to the backend the
\* session was started with.
C36_HistoryGoesToTheSessionsBackend ==
    [][\A sessionId \in SessionIds : \A c \in inflight' :
          ComposedFrom(c, sessionId)
              => c.backend = MapGet(sessions, sessionId).backend]_vars

\* C37: every invocation made for a session, by a session message or by an agent tool
\* called with the id of the session, runs with the model hub-session-start reported
\* for the session.
C37_InvocationsUseTheReportedModel ==
    [][\A sessionId \in SessionIds : \A c \in inflight' :
          ComposedFrom(c, sessionId)
              => InvokedModel(c) = ReportedModel(MapGet(sessions, sessionId))]_vars

---------------------------------------------------------------------------
(* Late output and the timer of the invoker. *)

\* The exit handler settles the result in this step.
ExitSettles ==
    /\ child.state = "exited"
    /\ child'.state = "closed"
    /\ result = NoResult
    /\ result' # NoResult

\* Everything the process has written to stdout, in one piece.
Written == Concat(SubSeq(child.script.out, 1, child.wrote))

\* C38: when the exit handler settles the result, the stdout it runs through the
\* extractor is everything the process wrote before it exited, however the data events
\* and the exit event are interleaved.
C38_ExitSeesAllOutput ==
    [][ExitSettles => Concat(stdoutCollector.chunks) = Written]_vars

\* C39: once the call has its result the timeout is no longer armed, the abort signal
\* is not raised afterwards and the child is not signalled afterwards, the result stays
\* as it is, and a result produced without the timeout having run is no timeout failure.
C39_NoTimeoutAfterResult ==
    [][/\ result' # NoResult => timeout' = Null
       /\ result # NoResult =>
             /\ ac' = ac
             /\ result' = result
             /\ child # NoChild => child' # NoChild /\ child'.signalled = child.signalled
       /\ (result' # NoResult /\ ~ac'.aborted) => ~IsTimeout(result', call')]_vars

\* The exit of a process was reported before its timeout was due, and the clock has
\* passed the deadline since: the result is the one of the exit, nothing was aborted.
C39_Witness ==
    /\ call # NoCall
    /\ child # NoChild
    /\ child.state = "closed"
    /\ result # NoResult
    /\ result.exitCode = 0
    /\ timeout = Null
    /\ ~ac.aborted
    /\ ~child.signalled
    /\ now >= call.startTime + call.timeoutMs

\* C39 as stated: a process that has exited while its timeout was not yet due never
\* yields a timeout failure, whenever its exit is reported.
C39_ExitedInTimeNeverTimesOut ==
    []((/\ child # NoChild
        /\ child.state = "exited"
        /\ timeout # Null
        /\ now < timeout.at)
          => [](result # NoResult => ~IsTimeout(result, call)))

---------------------------------------------------------------------------
(* Two calls on one session that overlap. *)

\* Another call on the session of the call is in flight, in the set given.
OverlapsIn(c, calls_) == \E d \in calls_ : d # c /\ d.sessionId = c.sessionId

\* C40: two calls on one live session overlap, and no limit of trimming is reached.
\* When the second call begins behind the unanswered user turn of the first, its user
\* turn is appended behind it and its prompt carries that turn as history.  When either
\* invocation succeeds, the first to complete or the second, its response is appended
\* to the list as it is: no turn is lost, and the responses stand in the order the
\* invocations completed, behind both user turns.
C40_OverlappingCallsLoseNoTurn ==
    [][\A c \in inflight \cup inflight' :
          (/\ Carries(c.sessionId)
           /\ c.sessionId \in Ids(sessions)
           /\ c.sessionId \in Ids(sessions')) =>
              LET before == TurnsIn(sessions, c.sessionId)
                  after == TurnsIn(sessions', c.sessionId)
              IN  /\ (/\ c \in Begun
                      /\ \E d \in inflight :
                            /\ d.sessionId = c.sessionId
                            /\ before # <<>>
                            /\ before[Len(before)] = UserTurnOf(d)
                      /\ WithinLimits(Append(before, UserTurn(c.message)))) =>
                         /\ after = Append(before, UserTurn(c.message))
                         /\ c.prompt = Wrapped(before, c.message)
                  /\ (/\ c \in Resolved
                      /\ result'.success
                      /\ OverlapsIn(c, inflight') \/ CompletesAfterAnother(c)) =>
                         /\ after = Append(before, AssistantTurn(result'.content))
                         /\ PlaceOf(before, UserTurnOf(c)) > 0 =>
                               PlaceOf(after, UserTurnOf(c)) < Len(after)]_vars

\* Two messages to one session overlapped and both invocations have succeeded: the
\* list holds the two messages and then the two responses, and the second message was
\* sent with the first as its history.
C40_Witness ==
    /\ inflight = {}
    /\ calls = 3
    /\ last.op = MessageTool
    /\ last.ok
    /\ result # NoResult
    /\ result.success
    /\ Live(last.id)
    /\ LET turns == TurnsOf(last.id)
       IN  /\ Len(turns) = 4
           /\ turns[1].role = "user" /\ turns[2].role = "user"
           /\ turns[3].role = "assistant" /\ turns[4].role = "assistant"
           /\ turns[2].content = last.msg \/ turns[1].content = last.msg
           /\ turns[4].content = result.content
           /\ last.was = SubSeq(turns, 1, 3)

====
